---- MODULE Spec2Model ----
(***************************************************************************)
(* Model of backend/services/appointment_service.py: the appointment       *)
(* booking engine (AppointmentService) with its JSON file persistence.     *)
(*                                                                         *)
(* Encoding of the program's values:                                       *)
(*   - a date string "YYYY-MM-DD" is the ordinal of its day, day 0 being a *)
(*     Monday, so that date.weekday() is (day % 7); a string strptime      *)
(*     rejects is BadDate; dates are the zero-padded strings of the        *)
(*     interface, one string per day: the program compares dates as        *)
(*     strings, and a non-padded spelling ("2026-11-4"), which strptime    *)
(*     also accepts, is to it another date than "2026-11-04";              *)
(*   - a time string "HH:MM" is its minute of the day ("09:30" is 570);    *)
(*     the order of the strings is the order of the minutes;               *)
(*   - a patient name is the sequence of its characters;                   *)
(*   - the dict self.appointments is the sequence of its values in         *)
(*     insertion order, every record carrying its key in the field id;     *)
(*   - an appointment id "APT-<YYYYMMDD>-<counter>" is <<day, counter>>;   *)
(*   - an isoformat timestamp is <<day, minute, micro>>, micro being 0     *)
(*     when the clock was read at a whole second (isoformat() then gives   *)
(*     the 19 characters "YYYY-MM-DDTHH:MM:SS") and 1 when its microsecond *)
(*     was not 0 (26 characters, ".ffffff" added).                         *)
(***************************************************************************)
EXTENDS Integers, Sequences, FiniteSets, TLC

\* ------------------------------------------------------------------------
\* Bounds of the model
\* ------------------------------------------------------------------------

\* the bookings one behaviour may create (cap on self._counter)
MaxCounter == 2

\* the last day the clock reaches
MaxDay == 2

\* a date string that datetime.strptime(date, "%Y-%m-%d") rejects
BadDate == -1

\* the service instances (processes importing appointment_service)
Instances == {1, 2}

\* ------------------------------------------------------------------------
\* ScheduleCatalog: AppointmentService.DEPARTMENTS / DOCTOR_SCHEDULE
\* ------------------------------------------------------------------------

DEPARTMENTS ==
    ("Cardiology"       :> <<"Dr. Harsh Sharma">>) @@
    ("Pediatrics"       :> <<"Dr. Arjun Gupta">>) @@
    ("Orthopedics"      :> <<"Dr. Sameer Khan">>) @@
    ("Neurology"        :> <<"Dr. Ananya Reddy">>) @@
    ("Oncology"         :> <<"Dr. Fatima Ahmed">>) @@
    ("Dermatology"      :> <<"Dr. Meera Desai", "Dr. Rohit Malhotra">>) @@
    ("General Surgery"  :> <<"Dr. Vikram Singh", "Dr. Anjali Mehta">>) @@
    ("General Medicine" :> <<"Dr. Rajesh Kumar", "Dr. Kavita Joshi", "Dr. Suresh Iyer">>) @@
    ("Gastroenterology" :> <<"Dr. Anil Verma">>) @@
    ("Nephrology"       :> <<"Dr. Pooja Nair">>) @@
    ("OB-GYN"           :> <<"Dr. Sneha Pillai", "Dr. Ritu Kapoor">>) @@
    ("Ophthalmology"    :> <<"Dr. Manish Agarwal">>) @@
    ("ENT"              :> <<"Dr. Deepak Rao">>) @@
    ("Psychiatry"       :> <<"Dr. Shalini Gupta", "Dr. Aryan Choudhury">>) @@
    ("Pulmonology"      :> <<"Dr. Karan Bhatia">>) @@
    ("Endocrinology"    :> <<"Dr. Nisha Patel">>) @@
    ("Urology"          :> <<"Dr. Abhishek Jain">>) @@
    ("Rheumatology"     :> <<"Dr. Priyanka Sharma">>)

\* The dict DEPARTMENTS is an attribute of the class, and its values are list
\* objects: whoever holds one of them can change it in place. The variable
\* is the dict as the calls find it, every list with its present elements.
VARIABLE
    catalog         \* AppointmentService.DEPARTMENTS at this moment

\* minute of the day of the string "HH:00"
Hour(h) == 60 * h

Sched(days, startHour, endHour) ==
    [days |-> days, start |-> Hour(startHour), end |-> Hour(endHour)]

DOCTOR_SCHEDULE ==
    ("Dr. Harsh Sharma"    :> Sched({0, 1, 2, 3, 4}, 9, 17)) @@
    ("Dr. Arjun Gupta"     :> Sched({0, 2, 4}, 10, 18)) @@
    ("Dr. Sameer Khan"     :> Sched({1, 3, 5}, 8, 16)) @@
    ("Dr. Ananya Reddy"    :> Sched({0, 1, 2, 3}, 11, 19)) @@
    ("Dr. Fatima Ahmed"    :> Sched({0, 1, 2, 3, 4}, 9, 17)) @@
    ("Dr. Meera Desai"     :> Sched({0, 2, 4}, 9, 17)) @@
    ("Dr. Rohit Malhotra"  :> Sched({1, 3, 5}, 10, 16)) @@
    ("Dr. Vikram Singh"    :> Sched({0, 1, 2, 3, 4}, 7, 15)) @@
    ("Dr. Anjali Mehta"    :> Sched({1, 2, 4}, 9, 17)) @@
    ("Dr. Rajesh Kumar"    :> Sched({0, 1, 2, 3, 4, 5}, 8, 14)) @@
    ("Dr. Kavita Joshi"    :> Sched({0, 2, 3, 4}, 14, 20)) @@
    ("Dr. Suresh Iyer"     :> Sched({1, 3, 5}, 9, 15)) @@
    ("Dr. Anil Verma"      :> Sched({0, 2, 4}, 10, 18)) @@
    ("Dr. Pooja Nair"      :> Sched({1, 3, 5}, 9, 16)) @@
    ("Dr. Sneha Pillai"    :> Sched({0, 1, 2, 3, 4}, 9, 17)) @@
    ("Dr. Ritu Kapoor"     :> Sched({0, 2, 3}, 10, 18)) @@
    ("Dr. Manish Agarwal"  :> Sched({0, 1, 3, 4}, 8, 16)) @@
    ("Dr. Deepak Rao"      :> Sched({0, 2, 4}, 9, 17)) @@
    ("Dr. Shalini Gupta"   :> Sched({0, 1, 2, 3, 4}, 10, 18)) @@
    ("Dr. Aryan Choudhury" :> Sched({1, 3, 5}, 11, 17)) @@
    ("Dr. Karan Bhatia"    :> Sched({0, 2, 4}, 9, 16)) @@
    ("Dr. Nisha Patel"     :> Sched({1, 3}, 10, 17)) @@
    ("Dr. Abhishek Jain"   :> Sched({0, 1, 3}, 8, 15)) @@
    ("Dr. Priyanka Sharma" :> Sched({2, 4}, 10, 16))

\* ------------------------------------------------------------------------
\* SlotGrid
\* ------------------------------------------------------------------------

\* "07:00", "07:30", ..., "19:30"
ALL_TIME_SLOTS == [i \in 1..26 |-> 390 + 30 * i]

\* the elements of a sequence
Range(s) == {s[i] : i \in DOMAIN s}

\* date.weekday() of a parsed date: 0 = Monday ... 6 = Sunday
Weekday(date) == date % 7

\* the list comprehension [s for s in ALL_TIME_SLOTS if lo <= s < hi]
SlotsBetween(lo, hi) ==
    LET InHours(s) == lo <= s /\ s < hi
    IN  SelectSeq(ALL_TIME_SLOTS, InHours)

\* AppointmentService._get_doctor_time_slots
_get_doctor_time_slots(doctor, date) ==
    IF doctor \notin DOMAIN DOCTOR_SCHEDULE
    THEN SlotsBetween(Hour(9), Hour(17))
    ELSE IF date = BadDate
         THEN << >>
         ELSE IF Weekday(date) \notin DOCTOR_SCHEDULE[doctor].days
              THEN << >>
              ELSE SlotsBetween(DOCTOR_SCHEDULE[doctor].start,
                                DOCTOR_SCHEDULE[doctor].end)

\* ------------------------------------------------------------------------
\* The dict self.appointments, as a sequence of records keyed by their id
\* ------------------------------------------------------------------------

\* the keys of the dict
Keys(m) == {m[k].id : k \in DOMAIN m}

\* m[id], for a key of the dict
Get(m, id) == m[CHOOSE k \in DOMAIN m : m[k].id = id]

\* m[apt.id] = apt: an existing key keeps its position, a new one is appended
DictSet(m, apt) ==
    IF apt.id \in Keys(m)
    THEN [k \in DOMAIN m |-> IF m[k].id = apt.id THEN apt ELSE m[k]]
    ELSE Append(m, apt)

\* ------------------------------------------------------------------------
\* AppointmentStore: the JSON file and its reload / commit
\* ------------------------------------------------------------------------

\* The file is (exists, readable, appointments, counter, size): readable
\* says that open() and json.load() give the dict of a snapshot; the next two
\* fields are that dict's "appointments" (in the order of the file) and
\* "counter"; size is the number of characters of the file.

\* data_file.exists() is false
NoFile ==
    [exists |-> FALSE, readable |-> FALSE, appointments |-> << >>,
     counter |-> 0, size |-> 0]

\* the file as open(self.data_file, "w") leaves it, until the text of the
\* snapshot is written: an empty text, on which json.load raises
\* JSONDecodeError
Truncated ==
    [exists |-> TRUE, readable |-> FALSE, appointments |-> << >>,
     counter |-> 0, size |-> 0]

\* the fields of the class Appointment
AppointmentFields ==
    {"id", "user_id", "patient_name", "patient_age", "patient_gender",
     "department", "doctor", "date", "time", "status", "created_at"}

\* apt.model_dump() writing a record of the old schema: the name under
\* "user_name", no age and no gender
model_dump_old_schema(apt) ==
    [k \in (AppointmentFields
              \ {"patient_name", "patient_age", "patient_gender"})
             \cup {"user_name"} |->
        IF k = "user_name" THEN apt.patient_name ELSE apt[k]]

\* apt.model_dump(): the dict of the eleven fields of the record
model_dump(apt) ==
    [id |-> apt.id, user_id |-> apt.user_id,
     patient_name |-> apt.patient_name, patient_age |-> apt.patient_age,
     patient_gender |-> apt.patient_gender, department |-> apt.department,
     doctor |-> apt.doctor, date |-> apt.date, time |-> apt.time,
     status |-> apt.status, created_at |-> apt.created_at]

\* dict.get(key, default)
DictGet(d, key, default) == IF key \in DOMAIN d THEN d[key] ELSE default

\* the "old schema migration" of _load_from_file on one dict of the file
Migrate(apt_data) ==
    IF "patient_name" \in DOMAIN apt_data THEN apt_data
    ELSE [k \in DOMAIN apt_data
                   \cup {"patient_name", "patient_age", "patient_gender"} |->
            IF k = "patient_name"
            THEN DictGet(apt_data, "user_name",
                         <<"U", "n", "k", "n", "o", "w", "n">>)
            ELSE IF k = "patient_age" THEN DictGet(apt_data, k, 0)
            ELSE IF k = "patient_gender" THEN DictGet(apt_data, k, "Other")
            ELSE apt_data[k]]

\* the fields of the class Appointment that have no default
RequiredFields == AppointmentFields \ {"status"}

\* Appointment(**apt_data) raises no ValidationError: every field without a
\* default is given
Constructible(apt_data) == RequiredFields \subseteq DOMAIN apt_data

\* Appointment(**apt_data): the eleven fields, status "confirmed" by
\* default, any other key of the dict ignored
Appointment(apt_data) ==
    [id |-> apt_data.id, user_id |-> apt_data.user_id,
     patient_name |-> apt_data.patient_name,
     patient_age |-> apt_data.patient_age,
     patient_gender |-> apt_data.patient_gender,
     department |-> apt_data.department, doctor |-> apt_data.doctor,
     date |-> apt_data.date, time |-> apt_data.time,
     status |-> DictGet(apt_data, "status", "confirmed"),
     created_at |-> apt_data.created_at]

\* the loop of _load_from_file: self.appointments[apt_id] = Appointment(...),
\* left at the first dict the class rejects (except Exception)
RECURSIVE LoadItems(_, _)
LoadItems(m, items) ==
    IF items = << >> THEN m
    ELSE LET apt_data == Migrate(Head(items))
         IN  IF ~Constructible(apt_data) THEN m
             ELSE LoadItems(DictSet(m, Appointment(apt_data)), Tail(items))

\* AppointmentService._load_from_file: the new (appointments, _counter); on
\* a file json.load rejects, the except branch prints and changes nothing
_load_from_file(m, c, f) ==
    IF ~f.exists
    THEN [appointments |-> m, counter |-> c]
    ELSE IF ~f.readable
    THEN [appointments |-> m, counter |-> c]
    ELSE [appointments |-> LoadItems(m, f.appointments), counter |-> f.counter]

\* The text json.dump(data, f, indent=2) writes is counted in characters.
\* Strings other than the patient's name (user ids, departments, doctors,
\* genders, statuses) are taken to be of printable ASCII characters without
\* quote or backslash, written as they are; a date has the ten characters
\* of "YYYY-MM-DD", a time the five of "HH:MM".

\* the characters of datetime.now().isoformat(): "YYYY-MM-DDTHH:MM:SS", and
\* ".ffffff" behind it unless the microsecond of the reading is 0
IsoLen(micro) == IF micro = 0 THEN 19 ELSE 26

\* the characters json.dump writes as they are: the printable ones of ASCII
\* but the quote and the backslash (and the backquote, a character no
\* string of a module can hold)
PlainChars ==
    {" ", "!", "#", "$", "%", "&", "'", "(", ")", "*", "+", ",", "-",
     ".", "/", "0", "1", "2", "3", "4", "5", "6", "7", "8", "9", ":",
     ";", "<", "=", ">", "?", "@", "A", "B", "C", "D", "E", "F", "G",
     "H", "I", "J", "K", "L", "M", "N", "O", "P", "Q", "R", "S", "T",
     "U", "V", "W", "X", "Y", "Z", "[", "]", "^", "_", "a", "b", "c",
     "d", "e", "f", "g", "h", "i", "j", "k", "l", "m", "n", "o", "p",
     "q", "r", "s", "t", "u", "v", "w", "x", "y", "z", "{", "|", "}",
     "~"}

\* the characters json.dump writes as a backslash and one character: the
\* quote, the backslash, newline, carriage return, tab, form feed, backspace
EscapedChars == {"\"", "\\", "\n", "\r", "\t", "\f", ""}

\* the characters json.dump (ensure_ascii) writes for one character of a
\* string: every other character is written as \uXXXX
JsonChar(ch) ==
    IF ch \in PlainChars THEN 1 ELSE IF ch \in EscapedChars THEN 2 ELSE 6

\* the characters written for the characters of a name
RECURSIVE JsonChars(_)
JsonChars(name) ==
    IF name = << >> THEN 0 ELSE JsonChar(Head(name)) + JsonChars(Tail(name))

\* the characters of the decimal writing of an integer
RECURSIVE Digits(_)
Digits(n) ==
    IF n < 0 THEN 1 + Digits(-n)
    ELSE IF n < 10 THEN 1 ELSE 1 + Digits(n \div 10)

\* the characters of f"APT-{...strftime('%Y%m%d')}-{self._counter:04d}"
IdLen(id) == 13 + (IF Digits(id[2]) < 4 THEN 4 ELSE Digits(id[2]))

\* the characters of one entry of "appointments": the line of its key, the
\* eleven lines of its fields and the closing brace, at their indentation
RecordLen(apt) ==
    267 + 2 * IdLen(apt.id) + Len(apt.user_id) + JsonChars(apt.patient_name)
        + IsoLen(apt.created_at[3])
        + Digits(apt.patient_age) + Len(apt.patient_gender)
        + Len(apt.department) + Len(apt.doctor) + Len(apt.status)

\* the characters of the entries of a dict, each with the two characters
\* that separate it from the next one
RECURSIVE RecordsLen(_)
RecordsLen(m) ==
    IF m = << >> THEN 0 ELSE RecordLen(Head(m)) + 2 + RecordsLen(Tail(m))

\* the characters of the text of _save_to_file for the dict m, the counter
\* c and a "last_updated" read at the microsecond micro ("appointments": {}
\* when the dict is empty)
TextLen(m, c, micro) ==
    59 + IsoLen(micro) + Digits(c)
       + (IF m = << >> THEN 2 ELSE 4 + RecordsLen(m))

\* AppointmentService._save_to_file, its datetime.now() read at the
\* microsecond micro: the new content of the file, the dicts of the records
\* in the order of the dict (of its "last_updated" stamp, which no code
\* reads, only the length is kept, in size)
_save_to_file(m, c, micro) ==
    [exists |-> TRUE, readable |-> TRUE,
     appointments |-> [k \in DOMAIN m |-> model_dump(m[k])],
     counter |-> c, size |-> TextLen(m, c, micro)]

\* The file after the text of the snapshot s is written into the file f that
\* open(self.data_file, "w") has emptied: the text goes to the start of the
\* file, in one write at the close (a text below the 8192 characters of the
\* buffer). When another handle has written a longer text since the open,
\* the end of that text stays behind the new one, and json.load rejects the
\* file ("Extra data").
Overwritten(f, s) ==
    IF f.size <= s.size THEN s
    ELSE [exists |-> TRUE, readable |-> FALSE, appointments |-> << >>,
          counter |-> 0, size |-> f.size]

\* ------------------------------------------------------------------------
\* get_available_slots
\* ------------------------------------------------------------------------

\* get_available_slots counting the appointments of every status as booked
get_available_slots_any_status(m, date, department, doctor, day, minute) ==
    LET doctor_slots == _get_doctor_time_slots(doctor, date)
        Booked(apt) == /\ apt.date = date
                       /\ apt.department = department
                       /\ apt.doctor = doctor
        booked_slots == {apt.time : apt \in Range(SelectSeq(m, Booked))}
        NotBooked(slot) == slot \notin booked_slots
        available == SelectSeq(doctor_slots, NotBooked)
        Later(slot) == slot > minute
    IN  IF doctor_slots = << >> THEN << >>
        ELSE IF date = BadDate THEN available
        ELSE IF date = day THEN SelectSeq(available, Later)
        ELSE IF date < day THEN << >>
        ELSE available

\* get_available_slots without the branch of the dates before today
get_available_slots_no_past(m, date, department, doctor, day, minute) ==
    LET doctor_slots == _get_doctor_time_slots(doctor, date)
        Booked(apt) == /\ apt.date = date
                       /\ apt.department = department
                       /\ apt.doctor = doctor
                       /\ apt.status = "confirmed"
        booked_slots == {apt.time : apt \in Range(SelectSeq(m, Booked))}
        NotBooked(slot) == slot \notin booked_slots
        available == SelectSeq(doctor_slots, NotBooked)
        Later(slot) == slot > minute
    IN  IF doctor_slots = << >> THEN << >>
        ELSE IF date = BadDate THEN available
        ELSE IF date = day THEN SelectSeq(available, Later)
        ELSE available

\* get_available_slots taking as booked only the appointments not confirmed
get_available_slots_not_confirmed(m, date, department, doctor, day, minute) ==
    LET doctor_slots == _get_doctor_time_slots(doctor, date)
        Booked(apt) == /\ apt.date = date
                       /\ apt.department = department
                       /\ apt.doctor = doctor
                       /\ apt.status # "confirmed"
        booked_slots == {apt.time : apt \in Range(SelectSeq(m, Booked))}
        NotBooked(slot) == slot \notin booked_slots
        available == SelectSeq(doctor_slots, NotBooked)
        Later(slot) == slot > minute
    IN  IF doctor_slots = << >> THEN << >>
        ELSE IF date = BadDate THEN available
        ELSE IF date = day THEN SelectSeq(available, Later)
        ELSE IF date < day THEN << >>
        ELSE available

\* AppointmentService.get_available_slots, after the reload; (day, minute)
\* is datetime.now()
get_available_slots(m, date, department, doctor, day, minute) ==
    LET doctor_slots == _get_doctor_time_slots(doctor, date)
        Booked(apt) == /\ apt.date = date
                       /\ apt.department = department
                       /\ apt.doctor = doctor
                       /\ apt.status = "confirmed"
        booked_slots == {apt.time : apt \in Range(SelectSeq(m, Booked))}
        NotBooked(slot) == slot \notin booked_slots
        available == SelectSeq(doctor_slots, NotBooked)
        Later(slot) == slot > minute
    IN  IF doctor_slots = << >> THEN << >>
        ELSE IF date = BadDate THEN available
        ELSE IF date = day THEN SelectSeq(available, Later)
        ELSE IF date < day THEN << >>
        ELSE available

\* ------------------------------------------------------------------------
\* book_appointment
\* ------------------------------------------------------------------------

\* The characters str.strip() removes, those str.isspace() holds for: the
\* blank, tab, newline, carriage return, form feed, and then U+000B, U+001C,
\* U+001D, U+001E, U+001F, U+0085, U+00A0 (no-break space) and U+1680. The
\* other ones (U+2000 to U+200A, U+2028, U+2029, U+202F, U+205F, U+3000) are
\* characters no string of a module can hold: no name here contains them.
Whitespace ==
    {" ", "\t", "\n", "\r", "\f",
     "", "", "", "", "", "", " ", " "}

\* str.lstrip(): the leading whitespace removed
RECURSIVE LStrip(_)
LStrip(s) ==
    IF s # << >> /\ Head(s) \in Whitespace THEN LStrip(Tail(s)) ELSE s

\* str.rstrip(): the trailing whitespace removed
RECURSIVE RStrip(_)
RStrip(s) ==
    IF s # << >> /\ s[Len(s)] \in Whitespace
    THEN RStrip(SubSeq(s, 1, Len(s) - 1)) ELSE s

\* str.strip() of a name
Strip(s) == RStrip(LStrip(s))

\* {"success": False, "error": ...} of book_appointment: the reason and the
\* values its message is formatted with ("" and -1 where it has none)
Failure(reason, department, doctor, date, time, start, end) ==
    [success |-> FALSE,
     error |-> [reason |-> reason, department |-> department,
                doctor |-> doctor, date |-> date, time |-> time,
                start |-> start, end |-> end]]

\* DOCTOR_SCHEDULE.get(doctor, {}).get('start', '09:00')
ScheduleStart(doctor) ==
    IF doctor \in DOMAIN DOCTOR_SCHEDULE
    THEN DOCTOR_SCHEDULE[doctor].start ELSE Hour(9)

\* DOCTOR_SCHEDULE.get(doctor, {}).get('end', '17:00')
ScheduleEnd(doctor) ==
    IF doctor \in DOMAIN DOCTOR_SCHEDULE
    THEN DOCTOR_SCHEDULE[doctor].end ELSE Hour(17)

\* CHECK 1 looking only at the appointments of the requesting user
doctor_booked_at_time_of_user(m, req) ==
    LET Test(apt) == /\ apt.user_id = req.user_id
                     /\ apt.doctor = req.doctor
                     /\ apt.date = req.date
                     /\ apt.time = req.time
                     /\ apt.status = "confirmed"
    IN  SelectSeq(m, Test)

\* doctor_booked_at_time without the test of the status
doctor_booked_at_time_any_status(m, req) ==
    LET Test(apt) == /\ apt.doctor = req.doctor
                     /\ apt.date = req.date
                     /\ apt.time = req.time
    IN  SelectSeq(m, Test)

\* the list doctor_booked_at_time of CHECK 1
doctor_booked_at_time(m, req) ==
    LET Test(apt) == /\ apt.doctor = req.doctor
                     /\ apt.date = req.date
                     /\ apt.time = req.time
                     /\ apt.status = "confirmed"
    IN  SelectSeq(m, Test)

\* CHECK 2 looking only at the appointments with the requested doctor
user_booked_at_time_same_doctor(m, req) ==
    LET Test(apt) == /\ apt.user_id = req.user_id
                     /\ apt.doctor = req.doctor
                     /\ apt.date = req.date
                     /\ apt.time = req.time
                     /\ apt.status = "confirmed"
    IN  SelectSeq(m, Test)

\* the list user_booked_at_time of CHECK 2
user_booked_at_time(m, req) ==
    LET Test(apt) == /\ apt.user_id = req.user_id
                     /\ apt.date = req.date
                     /\ apt.time = req.time
                     /\ apt.status = "confirmed"
    IN  SelectSeq(m, Test)

\* CHECK 3 looking only at the appointments at the requested time
user_same_doctor_same_day_at_time(m, req) ==
    LET Test(apt) == /\ apt.user_id = req.user_id
                     /\ apt.doctor = req.doctor
                     /\ apt.date = req.date
                     /\ apt.time = req.time
                     /\ apt.status = "confirmed"
    IN  SelectSeq(m, Test)

\* the list user_same_doctor_same_day of CHECK 3
user_same_doctor_same_day(m, req) ==
    LET Test(apt) == /\ apt.user_id = req.user_id
                     /\ apt.doctor = req.doctor
                     /\ apt.date = req.date
                     /\ apt.status = "confirmed"
    IN  SelectSeq(m, Test)

\* other_appointments without the test of the status
other_appointments_any_status(m, req, apt_id) ==
    LET Test(apt) == /\ apt.user_id = req.user_id
                     /\ apt.date = req.date
                     /\ apt.id # apt_id
    IN  SelectSeq(m, Test)

\* the list other_appointments of the confirmation message
other_appointments(m, req, apt_id) ==
    LET Test(apt) == /\ apt.user_id = req.user_id
                     /\ apt.date = req.date
                     /\ apt.id # apt_id
                     /\ apt.status = "confirmed"
    IN  SelectSeq(m, Test)

\* no check of a group rejects the request
NoError == [success |-> TRUE]

\* the checks of department, doctor, working day, working time and date of
\* book_appointment, in the order of the code: the first failure, or NoError
StructureError(req, day) ==
    LET doctor_slots == _get_doctor_time_slots(req.doctor, req.date)
    IN  IF req.department \notin DOMAIN catalog
        THEN Failure("Invalid department", "", "", -1, -1, -1, -1)
        ELSE IF req.doctor \notin Range(catalog[req.department])
        THEN Failure("Doctor not in department", req.department, "",
                     -1, -1, -1, -1)
        ELSE IF doctor_slots = << >>
        THEN Failure("Doctor not available on this day", "", req.doctor,
                     -1, -1, -1, -1)
        ELSE IF req.time \notin Range(doctor_slots)
        THEN Failure("Invalid time", "", req.doctor, -1, -1,
                     ScheduleStart(req.doctor), ScheduleEnd(req.doctor))
        ELSE IF req.date = BadDate
        THEN Failure("Invalid date format", "", "", -1, -1, -1, -1)
        ELSE IF req.date < day
        THEN Failure("Cannot book in the past", "", "", -1, -1, -1, -1)
        ELSE NoError

\* the checks of the patient with the age checked before the name
PatientErrorAgeFirst(req) ==
    IF req.patient_age < 0 \/ req.patient_age > 150
    THEN Failure("Invalid age", "", "", -1, -1, -1, -1)
    ELSE IF req.patient_name = << >> \/ Len(Strip(req.patient_name)) < 2
    THEN Failure("Invalid patient name", "", "", -1, -1, -1, -1)
    ELSE IF req.patient_gender \notin {"Male", "Female", "Other"}
    THEN Failure("Invalid gender", "", "", -1, -1, -1, -1)
    ELSE NoError

\* the checks of the patient's name, age and gender, in the order of the code
PatientError(req) ==
    IF req.patient_name = << >> \/ Len(Strip(req.patient_name)) < 2
    THEN Failure("Invalid patient name", "", "", -1, -1, -1, -1)
    ELSE IF req.patient_age < 0 \/ req.patient_age > 150
    THEN Failure("Invalid age", "", "", -1, -1, -1, -1)
    ELSE IF req.patient_gender \notin {"Male", "Female", "Other"}
    THEN Failure("Invalid gender", "", "", -1, -1, -1, -1)
    ELSE NoError

\* the checks of the conflicts without CHECK 1
ConflictErrorUserOnly(m, req) ==
    IF user_booked_at_time(m, req) # << >>
    THEN Failure("User already booked at this time", "",
                 user_booked_at_time(m, req)[1].doctor, req.date, req.time,
                 -1, -1)
    ELSE IF user_same_doctor_same_day(m, req) # << >>
    THEN Failure("User already booked with this doctor", "", req.doctor,
                 req.date, user_same_doctor_same_day(m, req)[1].time, -1, -1)
    ELSE NoError

\* CHECK 1, CHECK 2 and CHECK 3 against the dict m, in the order of the code
ConflictError(m, req) ==
    IF doctor_booked_at_time(m, req) # << >>
    THEN Failure("Doctor already booked", "", req.doctor, req.date, req.time,
                 -1, -1)
    ELSE IF user_booked_at_time(m, req) # << >>
    THEN Failure("User already booked at this time", "",
                 user_booked_at_time(m, req)[1].doctor, req.date, req.time,
                 -1, -1)
    ELSE IF user_same_doctor_same_day(m, req) # << >>
    THEN Failure("User already booked with this doctor", "", req.doctor,
                 req.date, user_same_doctor_same_day(m, req)[1].time, -1, -1)
    ELSE NoError

\* the validation of book_appointment: its first failure, or NoError
Validate(m, req, day) ==
    IF ~StructureError(req, day).success THEN StructureError(req, day)
    ELSE IF ~PatientError(req).success THEN PatientError(req)
    ELSE ConflictError(m, req)

\* "Booked ... Note: You also have appointment(s) on this date with ...":
\* the values the confirmation message is formatted with
Message(req, others) ==
    [patient_name |-> req.patient_name, doctor |-> req.doctor,
     date |-> req.date, time |-> req.time,
     also |-> [k \in DOMAIN others |-> <<others[k].doctor, others[k].time>>]]

\* book_appointment without self._counter += 1 being kept
book_appointment_no_increment(m, c, req, day, minute, micro) ==
    LET apt_id == <<day, c + 1>>
        appointment ==
            [id |-> apt_id, user_id |-> req.user_id,
             patient_name |-> Strip(req.patient_name),
             patient_age |-> req.patient_age,
             patient_gender |-> req.patient_gender,
             department |-> req.department, doctor |-> req.doctor,
             date |-> req.date, time |-> req.time,
             status |-> "confirmed", created_at |-> <<day, minute, micro>>]
        booked == DictSet(m, appointment)
    IN  IF ~Validate(m, req, day).success
        THEN [res |-> Validate(m, req, day),
              appointments |-> m, counter |-> c, saved |-> FALSE]
        ELSE [res |-> [success |-> TRUE, appointment |-> appointment,
                       message |-> Message(req, other_appointments(booked, req,
                                                                  apt_id))],
              appointments |-> booked, counter |-> c, saved |-> TRUE]

\* book_appointment after the reload, on the dict m and the counter c at the
\* clock (day, minute, micro): the result returned, the new dict and
\* counter, and whether _save_to_file was called
book_appointment(m, c, req, day, minute, micro) ==
    LET apt_id == <<day, c + 1>>
        appointment ==
            [id |-> apt_id, user_id |-> req.user_id,
             patient_name |-> Strip(req.patient_name),
             patient_age |-> req.patient_age,
             patient_gender |-> req.patient_gender,
             department |-> req.department, doctor |-> req.doctor,
             date |-> req.date, time |-> req.time,
             status |-> "confirmed", created_at |-> <<day, minute, micro>>]
        booked == DictSet(m, appointment)
    IN  IF ~Validate(m, req, day).success
        THEN [res |-> Validate(m, req, day),
              appointments |-> m, counter |-> c, saved |-> FALSE]
        ELSE [res |-> [success |-> TRUE, appointment |-> appointment,
                       message |-> Message(req, other_appointments(booked, req,
                                                                  apt_id))],
              appointments |-> booked, counter |-> c + 1, saved |-> TRUE]

\* ------------------------------------------------------------------------
\* cancel_appointment / cancel_appointment_by_doctor
\* ------------------------------------------------------------------------

\* apt.status = status on the record stored under id
SetStatus(m, id, status) ==
    [k \in DOMAIN m |-> IF m[k].id = id THEN [m[k] EXCEPT !.status = status]
                        ELSE m[k]]

\* cancel_appointment refusing, as the doctor's path does, an appointment
\* that is not confirmed
cancel_appointment_confirmed_only(m, appointment_id, user_id) ==
    IF appointment_id \notin Keys(m)
    THEN [res |-> [success |-> FALSE, error |-> "Appointment not found"],
          appointments |-> m, saved |-> FALSE]
    ELSE IF Get(m, appointment_id).user_id # user_id
    THEN [res |-> [success |-> FALSE, error |-> "Unauthorized"],
          appointments |-> m, saved |-> FALSE]
    ELSE IF Get(m, appointment_id).status # "confirmed"
    THEN [res |-> [success |-> FALSE, error |-> "Cannot cancel"],
          appointments |-> m, saved |-> FALSE]
    ELSE [res |-> [success |-> TRUE, message |-> appointment_id],
          appointments |-> SetStatus(m, appointment_id, "cancelled"),
          saved |-> TRUE]

\* cancel_appointment restoring an appointment that is already cancelled
cancel_appointment_toggle(m, appointment_id, user_id) ==
    IF appointment_id \notin Keys(m)
    THEN [res |-> [success |-> FALSE, error |-> "Appointment not found"],
          appointments |-> m, saved |-> FALSE]
    ELSE IF Get(m, appointment_id).user_id # user_id
    THEN [res |-> [success |-> FALSE, error |-> "Unauthorized"],
          appointments |-> m, saved |-> FALSE]
    ELSE [res |-> [success |-> TRUE, message |-> appointment_id],
          appointments |->
              SetStatus(m, appointment_id,
                        IF Get(m, appointment_id).status = "confirmed"
                        THEN "cancelled" ELSE "confirmed"),
          saved |-> TRUE]

\* cancel_appointment without the test of the owner
cancel_appointment_any_user(m, appointment_id, user_id) ==
    IF appointment_id \notin Keys(m)
    THEN [res |-> [success |-> FALSE, error |-> "Appointment not found"],
          appointments |-> m, saved |-> FALSE]
    ELSE [res |-> [success |-> TRUE, message |-> appointment_id],
          appointments |-> SetStatus(m, appointment_id, "cancelled"),
          saved |-> TRUE]

\* cancel_appointment after the reload: the result, the new dict, and
\* whether _save_to_file was called
cancel_appointment(m, appointment_id, user_id) ==
    IF appointment_id \notin Keys(m)
    THEN [res |-> [success |-> FALSE, error |-> "Appointment not found"],
          appointments |-> m, saved |-> FALSE]
    ELSE IF Get(m, appointment_id).user_id # user_id
    THEN [res |-> [success |-> FALSE, error |-> "Unauthorized"],
          appointments |-> m, saved |-> FALSE]
    ELSE [res |-> [success |-> TRUE, message |-> appointment_id],
          appointments |-> SetStatus(m, appointment_id, "cancelled"),
          saved |-> TRUE]

\* cancel_appointment_by_doctor testing the status before the doctor
cancel_appointment_by_doctor_status_first(m, appointment_id, doctor_name, reason) ==
    IF appointment_id \notin Keys(m)
    THEN [res |-> [success |-> FALSE, error |-> "Appointment not found"],
          appointments |-> m, saved |-> FALSE]
    ELSE IF Get(m, appointment_id).status # "confirmed"
    THEN [res |-> [success |-> FALSE, error |-> "Cannot cancel",
                   status |-> Get(m, appointment_id).status],
          appointments |-> m, saved |-> FALSE]
    ELSE IF Get(m, appointment_id).doctor # doctor_name
    THEN [res |-> [success |-> FALSE, error |-> "Unauthorized"],
          appointments |-> m, saved |-> FALSE]
    ELSE [res |-> [success |-> TRUE,
                   message |-> [id |-> appointment_id,
                                patient_name |-> Get(m, appointment_id).patient_name,
                                date |-> Get(m, appointment_id).date,
                                time |-> Get(m, appointment_id).time,
                                reason |-> reason],
                   patient_user_id |-> Get(m, appointment_id).user_id],
          appointments |-> SetStatus(m, appointment_id, "cancelled_by_doctor"),
          saved |-> TRUE]

\* cancel_appointment_by_doctor without the test of the status
cancel_appointment_by_doctor_any_status(m, appointment_id, doctor_name, reason) ==
    IF appointment_id \notin Keys(m)
    THEN [res |-> [success |-> FALSE, error |-> "Appointment not found"],
          appointments |-> m, saved |-> FALSE]
    ELSE IF Get(m, appointment_id).doctor # doctor_name
    THEN [res |-> [success |-> FALSE, error |-> "Unauthorized"],
          appointments |-> m, saved |-> FALSE]
    ELSE [res |-> [success |-> TRUE,
                   message |-> [id |-> appointment_id,
                                patient_name |-> Get(m, appointment_id).patient_name,
                                date |-> Get(m, appointment_id).date,
                                time |-> Get(m, appointment_id).time,
                                reason |-> reason],
                   patient_user_id |-> Get(m, appointment_id).user_id],
          appointments |-> SetStatus(m, appointment_id, "cancelled_by_doctor"),
          saved |-> TRUE]

\* cancel_appointment_by_doctor after the reload
cancel_appointment_by_doctor(m, appointment_id, doctor_name, reason) ==
    IF appointment_id \notin Keys(m)
    THEN [res |-> [success |-> FALSE, error |-> "Appointment not found"],
          appointments |-> m, saved |-> FALSE]
    ELSE IF Get(m, appointment_id).doctor # doctor_name
    THEN [res |-> [success |-> FALSE, error |-> "Unauthorized"],
          appointments |-> m, saved |-> FALSE]
    ELSE IF Get(m, appointment_id).status # "confirmed"
    THEN [res |-> [success |-> FALSE, error |-> "Cannot cancel",
                   status |-> Get(m, appointment_id).status],
          appointments |-> m, saved |-> FALSE]
    ELSE [res |-> [success |-> TRUE,
                   message |-> [id |-> appointment_id,
                                patient_name |-> Get(m, appointment_id).patient_name,
                                date |-> Get(m, appointment_id).date,
                                time |-> Get(m, appointment_id).time,
                                reason |-> reason],
                   patient_user_id |-> Get(m, appointment_id).user_id],
          appointments |-> SetStatus(m, appointment_id, "cancelled_by_doctor"),
          saved |-> TRUE]

\* ------------------------------------------------------------------------
\* The lists of appointments: _mark_expired_status and the queries
\* ------------------------------------------------------------------------

\* the order of the sort keys: (x["date"], x["time"]), or x["time"] alone
KeyBefore(a, b, byDate) ==
    \/ byDate /\ a.date < b.date
    \/ (~byDate \/ a.date = b.date) /\ a.time < b.time

\* one step of list.sort: x joins the sorted list behind the elements whose
\* key is equal (the sort is stable, also with reverse=True)
RECURSIVE SortInsert(_, _, _, _)
SortInsert(sorted, x, byDate, reverse) ==
    IF sorted = << >> THEN <<x>>
    ELSE IF (IF reverse THEN KeyBefore(Head(sorted), x, byDate)
             ELSE KeyBefore(x, Head(sorted), byDate))
         THEN <<x>> \o sorted
         ELSE <<Head(sorted)>> \o SortInsert(Tail(sorted), x, byDate, reverse)

\* apts.sort(key=..., reverse=...)
RECURSIVE Sort(_, _, _)
Sort(s, byDate, reverse) ==
    IF s = << >> THEN << >>
    ELSE SortInsert(Sort(SubSeq(s, 1, Len(s) - 1), byDate, reverse),
                    s[Len(s)], byDate, reverse)

\* apt_datetime < datetime.now(): the clock reads (day, minute), and exact
\* tells that it reads the very start of the minute
BeforeNow(date, time, day, minute, exact) ==
    \/ date < day
    \/ date = day /\ time < minute
    \/ date = day /\ time = minute /\ ~exact

\* AppointmentService._mark_expired_status on one dict of model_dump()
_mark_expired_status(appointment, day, minute, exact) ==
    IF appointment.date = BadDate THEN appointment
    ELSE IF BeforeNow(appointment.date, appointment.time, day, minute, exact)
         THEN [appointment EXCEPT !.status = "expired"]
         ELSE appointment

\* _mark_expired_status on every element of a list
MarkAll(apts, day, minute, exact) ==
    [k \in DOMAIN apts |-> _mark_expired_status(apts[k], day, minute, exact)]

\* get_user_appointments marking the stored records, not their copies
get_user_appointments_in_place(m, user_id, day, minute, exact) ==
    LET Test(apt) == /\ apt.user_id = user_id
                     /\ apt.status \in {"confirmed", "expired"}
        apts == SelectSeq(m, Test)
        marked == [k \in DOMAIN m |->
                     IF m[k] \in Range(apts)
                     THEN _mark_expired_status(m[k], day, minute, exact)
                     ELSE m[k]]
    IN  [res |-> Sort(MarkAll(apts, day, minute, exact), TRUE, FALSE),
         appointments |-> marked]

\* get_user_appointments after the reload: the list returned, and the dict
\* after the call (the marks go to the copies model_dump() makes)
get_user_appointments(m, user_id, day, minute, exact) ==
    LET Test(apt) == /\ apt.user_id = user_id
                     /\ apt.status \in {"confirmed", "expired"}
        apts == SelectSeq(m, Test)
    IN  [res |-> Sort(MarkAll(apts, day, minute, exact), TRUE, FALSE),
         appointments |-> m]

\* get_doctor_appointments_today after the reload
get_doctor_appointments_today(m, doctor_name, day, minute, exact) ==
    LET Test(apt) == /\ apt.doctor = doctor_name
                     /\ apt.date = day
                     /\ apt.status \in {"confirmed", "expired"}
        apts == SelectSeq(m, Test)
    IN  [res |-> Sort(MarkAll(apts, day, minute, exact), FALSE, FALSE),
         appointments |-> m]

\* get_doctor_past_week_appointments after the reload
get_doctor_past_week_appointments(m, doctor_name, day, minute, exact) ==
    LET Test(apt) == /\ apt.doctor = doctor_name
                     /\ day - 7 <= apt.date
                     /\ apt.date <= day
                     /\ apt.status \in {"confirmed", "expired"}
        apts == SelectSeq(m, Test)
    IN  [res |-> Sort(MarkAll(apts, day, minute, exact), TRUE, TRUE),
         appointments |-> m]

\* get_user_appointments_on_date after the reload
get_user_appointments_on_date(m, user_id, date) ==
    LET Test(apt) == /\ apt.user_id = user_id
                     /\ apt.date = date
                     /\ apt.status = "confirmed"
    IN  [res |-> Sort(SelectSeq(m, Test), FALSE, FALSE), appointments |-> m]

\* get_all_appointments dropping from the dict what it does not list
get_all_appointments_pruning(m) ==
    LET Test(apt) == apt.status = "confirmed"
    IN  [res |-> Sort(SelectSeq(m, Test), TRUE, FALSE),
         appointments |-> SelectSeq(m, Test)]

\* get_all_appointments after the reload
get_all_appointments(m) ==
    LET Test(apt) == apt.status = "confirmed"
    IN  [res |-> Sort(SelectSeq(m, Test), TRUE, FALSE), appointments |-> m]

\* get_doctor_all_appointments after the reload: apt.date >= today compares
\* the date strings, and the time of the appointment is not looked at
get_doctor_all_appointments(m, doctor_name, day) ==
    LET Test(apt) == /\ apt.doctor = doctor_name
                     /\ apt.date >= day
                     /\ apt.status = "confirmed"
    IN  [res |-> Sort(SelectSeq(m, Test), TRUE, FALSE), appointments |-> m]

\* ------------------------------------------------------------------------
\* Inputs of the operations
\* ------------------------------------------------------------------------

Users == {"user_1", "user_2"}

\* (department, doctor): two pairs of the catalog
CatalogDoctors ==
    { <<"Cardiology", "Dr. Harsh Sharma">>,
      <<"Rheumatology", "Dr. Priyanka Sharma">> }

\* a doctor of another department, and a department that is not in the catalog
WrongDoctors ==
    { <<"Cardiology", "Dr. Priyanka Sharma">>,
      <<"Radiology", "Dr. Harsh Sharma">> }

\* a Monday (Dr. Priyanka Sharma is off), the Wednesday after it (both
\* doctors work), and a malformed date
ReqDates == {0, 2, BadDate}

\* "09:30" (before Dr. Priyanka Sharma's start) and "10:00"
ReqTimes == {Hour(9) + 30, Hour(10)}

\* (name, age, gender): a valid patient, the name to be stripped
ValidPatient == << <<" ", "A", "l", "\n">>, 30, "Female" >>

\* invalid patients: name; name and age; age and gender; gender
InvalidPatients ==
    { << <<"\t", "A", " ">>, 150, "Other" >>,
      << << >>, 151, "Male" >>,
      << <<"A", "l">>, -1, "Unknown" >>,
      << <<"A", "l">>, 0, "female" >> }

Request(u, dd, date, time, p) ==
    [user_id |-> u, patient_name |-> p[1], patient_age |-> p[2],
     patient_gender |-> p[3], department |-> dd[1], doctor |-> dd[2],
     date |-> date, time |-> time]

\* the requests of the booking scenarios: a valid patient, catalog doctors
Requests ==
    {Request(u, dd, date, time, ValidPatient) :
        u \in Users, dd \in CatalogDoctors, date \in ReqDates,
        time \in ReqTimes}

\* the requests of the validation scenarios: any mix of invalid fields
AnyRequests ==
    {Request(u, dd, date, time, p) :
        u \in Users, dd \in CatalogDoctors \cup WrongDoctors,
        date \in ReqDates, time \in ReqTimes,
        p \in {ValidPatient} \cup InvalidPatients}

\* an identifier no booking returns
UnknownId == <<0, 0>>

\* the doctors and departments of the slot queries: also a doctor that is in
\* no registry
QueryDoctors == {"Dr. Harsh Sharma", "Dr. Priyanka Sharma", "Dr. Nobody"}
QueryDepartments == {"Cardiology", "Rheumatology"}

\* the first day of the clock: a Tuesday
FirstDay == 1

\* the reading of the clock within its day: "10:00"
ClockMinutes == {Hour(10)}

\* the microsecond of a reading of the clock, as far as isoformat() shows
\* it: 0, or not 0
Micros == {0, 1}

\* the readings of the scenarios that take a call as a whole: the clock as
\* it runs, not at a whole second (the scenarios of the file accesses read
\* both)
ClockMicros == {1}

\* ------------------------------------------------------------------------
\* State
\* ------------------------------------------------------------------------

VARIABLES
    appointments,   \* per instance: self.appointments
    counter,        \* per instance: self._counter
    file,           \* the content of data/appointments.json
    today,          \* datetime.now().date()
    now,            \* datetime.now(), minute of the day
    pc,             \* per instance: "idle", "loaded" (inside book_appointment,
                    \* after its reload), "writing" (inside _save_to_file,
                    \* the file open) or "done" (result not yet taken)
    pend,           \* per instance: the arguments of the call in progress
    call,           \* per instance: the call completed and its result
    overlap,        \* per instance: who wrote the file since its reload
    lastWriter      \* the instance that wrote the file last (0: none)

vars == <<appointments, counter, file, today, now, pc, pend, call, overlap,
          lastWriter, catalog>>

NoCall == [op |-> "none"]

\* appointment_service = AppointmentService(), no data file yet
Init ==
    /\ appointments = [i \in Instances |-> << >>]
    /\ counter = [i \in Instances |-> 0]
    /\ file = NoFile
    /\ today = FirstDay
    /\ now \in ClockMinutes
    /\ pc = [i \in Instances |-> "idle"]
    /\ pend = [i \in Instances |-> NoCall]
    /\ call = [i \in Instances |-> NoCall]
    /\ overlap = [i \in Instances |-> {}]
    /\ lastWriter = 0
    /\ catalog = DEPARTMENTS

\* the write of the file by instance i (the open that empties it, or the
\* text put into it), seen by the calls in progress
Written(i) ==
    /\ lastWriter' = i
    /\ overlap' = [j \in Instances |->
                     IF j # i /\ pc[j] \in {"loaded", "writing"}
                     THEN overlap[j] \cup {i}
                     ELSE overlap[j]]

NotWritten == UNCHANGED <<file, lastWriter, overlap>>

\* instance i returns from a call
Done(i, c) ==
    /\ pc' = [pc EXCEPT ![i] = "done"]
    /\ call' = [call EXCEPT ![i] = c]

\* ------------------------------------------------------------------------
\* Operations of one instance, each a whole call
\* ------------------------------------------------------------------------

\* book_appointment(user_id, ..., time); created and updated are the
\* microseconds the clock shows when created_at and last_updated are read
Book(i, req, created, updated) ==
    /\ pc[i] = "idle"
    /\ LET l == _load_from_file(appointments[i], counter[i], file)
           b == book_appointment(l.appointments, l.counter, req, today, now,
                                created)
       IN  /\ b.saved => l.counter < MaxCounter
           /\ appointments' = [appointments EXCEPT ![i] = b.appointments]
           /\ counter' = [counter EXCEPT ![i] = b.counter]
           /\ Done(i, [op |-> "book", req |-> req, res |-> b.res,
                       raced |-> {}])
           /\ IF b.saved
              THEN /\ file' = _save_to_file(b.appointments, b.counter,
                                            updated)
                   /\ Written(i)
              ELSE NotWritten
    /\ UNCHANGED <<today, now, pend>>
    /\ UNCHANGED catalog

\* cancel_appointment(appointment_id, user_id)
Cancel(i, appointment_id, user_id, updated) ==
    /\ pc[i] = "idle"
    /\ LET l == _load_from_file(appointments[i], counter[i], file)
           r == cancel_appointment(l.appointments, appointment_id, user_id)
       IN  /\ appointments' = [appointments EXCEPT ![i] = r.appointments]
           /\ counter' = [counter EXCEPT ![i] = l.counter]
           /\ Done(i, [op |-> "cancel", appointment_id |-> appointment_id,
                       user_id |-> user_id, res |-> r.res,
                       was |-> IF appointment_id \in Keys(l.appointments)
                               THEN Get(l.appointments, appointment_id).status
                               ELSE "none"])
           /\ IF r.saved
              THEN /\ file' = _save_to_file(r.appointments, l.counter,
                                            updated)
                   /\ Written(i)
              ELSE NotWritten
    /\ UNCHANGED <<today, now, pend>>
    /\ UNCHANGED catalog

\* cancel_appointment_by_doctor(appointment_id, doctor_name, reason)
CancelByDoctor(i, appointment_id, doctor_name, reason, updated) ==
    /\ pc[i] = "idle"
    /\ LET l == _load_from_file(appointments[i], counter[i], file)
           r == cancel_appointment_by_doctor(l.appointments, appointment_id,
                                          doctor_name, reason)
       IN  /\ appointments' = [appointments EXCEPT ![i] = r.appointments]
           /\ counter' = [counter EXCEPT ![i] = l.counter]
           /\ Done(i, [op |-> "cancel_by_doctor",
                       appointment_id |-> appointment_id,
                       doctor_name |-> doctor_name, reason |-> reason,
                       res |-> r.res])
           /\ IF r.saved
              THEN /\ file' = _save_to_file(r.appointments, l.counter,
                                            updated)
                   /\ Written(i)
              ELSE NotWritten
    /\ UNCHANGED <<today, now, pend>>
    /\ UNCHANGED catalog

\* get_available_slots(date, department, doctor)
GetAvailableSlots(i, date, department, doctor) ==
    /\ pc[i] = "idle"
    /\ LET l == _load_from_file(appointments[i], counter[i], file)
       IN  /\ appointments' = [appointments EXCEPT ![i] = l.appointments]
           /\ counter' = [counter EXCEPT ![i] = l.counter]
           /\ Done(i, [op |-> "slots", date |-> date,
                       department |-> department, doctor |-> doctor,
                       res |-> get_available_slots(l.appointments, date,
                                              department, doctor, today, now)])
    /\ NotWritten
    /\ UNCHANGED <<today, now, pend>>
    /\ UNCHANGED catalog

\* the caller of instance i takes the result; the instance is free again
Return(i) ==
    /\ pc[i] = "done"
    /\ pc' = [pc EXCEPT ![i] = "idle"]
    /\ call' = [call EXCEPT ![i] = NoCall]
    /\ UNCHANGED <<appointments, counter, file, today, now, pend, overlap,
                   lastWriter>>
    /\ UNCHANGED catalog

\* the clock moves on, between the calls
Tick ==
    /\ \A i \in Instances : pc[i] # "done"
    /\ \E d \in FirstDay..MaxDay, t \in ClockMinutes :
          /\ d > today \/ (d = today /\ t > now)
          /\ today' = d
          /\ now' = t
    /\ UNCHANGED <<appointments, counter, file, pc, pend, call, overlap,
                   lastWriter>>
    /\ UNCHANGED catalog

\* the identifiers a cancellation may name: the stored ones and an unknown one
ReqIds == Keys(file.appointments) \cup {UnknownId}

\* one service instance, processing its requests one at a time
Next ==
    \/ \E req \in Requests, created, updated \in ClockMicros :
          Book(1, req, created, updated)
    \/ \E id \in ReqIds, u \in Users, updated \in ClockMicros :
          Cancel(1, id, u, updated)
    \/ \E id \in ReqIds, dd \in CatalogDoctors, reason \in {"", "on leave"},
          updated \in ClockMicros :
          CancelByDoctor(1, id, dd[2], reason, updated)
    \/ \E date \in ReqDates, dep \in QueryDepartments, d \in QueryDoctors :
          GetAvailableSlots(1, date, dep, d)
    \/ Return(1)
    \/ Tick

Spec == Init /\ [][Next]_vars

\* ------------------------------------------------------------------------
\* Validation scenarios: bookings with any mix of invalid fields
\* ------------------------------------------------------------------------

NextValidate ==
    \/ \E req \in AnyRequests, created, updated \in ClockMicros :
          Book(1, req, created, updated)
    \/ Return(1)
    \/ Tick

SpecValidate == Init /\ [][NextValidate]_vars

\* ------------------------------------------------------------------------
\* The lists of appointments: the queries of a patient and of a doctor
\* ------------------------------------------------------------------------

\* a query of instance i: its reload, then the list and the dict of r
Query(i, c, r) ==
    /\ pc[i] = "idle"
    /\ appointments' = [appointments EXCEPT ![i] = r.appointments]
    /\ counter' = [counter EXCEPT ![i] =
                      _load_from_file(appointments[i], counter[i],
                                      file).counter]
    /\ Done(i, [c EXCEPT !.res = r.res])
    /\ NotWritten
    /\ UNCHANGED <<today, now, pend>>
    /\ UNCHANGED catalog

\* get_user_appointments(user_id)
GetUserAppointments(i, user_id, exact) ==
    Query(i, [op |-> "user_appointments", user_id |-> user_id,
              exact |-> exact, res |-> << >>],
          get_user_appointments(
              _load_from_file(appointments[i], counter[i], file).appointments,
              user_id, today, now, exact))

\* get_doctor_appointments_today(doctor_name)
GetDoctorAppointmentsToday(i, doctor_name, exact) ==
    Query(i, [op |-> "doctor_today", doctor_name |-> doctor_name,
              exact |-> exact, res |-> << >>],
          get_doctor_appointments_today(
              _load_from_file(appointments[i], counter[i], file).appointments,
              doctor_name, today, now, exact))

\* get_doctor_past_week_appointments(doctor_name)
GetDoctorPastWeekAppointments(i, doctor_name, exact) ==
    Query(i, [op |-> "doctor_past_week", doctor_name |-> doctor_name,
              exact |-> exact, res |-> << >>],
          get_doctor_past_week_appointments(
              _load_from_file(appointments[i], counter[i], file).appointments,
              doctor_name, today, now, exact))

\* one instance: bookings, cancellations by the patient, the clock, and the
\* queries that mark the appointments of the past as expired
NextQueries ==
    \/ \E req \in Requests, created, updated \in ClockMicros :
          Book(1, req, created, updated)
    \/ \E id \in ReqIds, u \in Users, updated \in ClockMicros :
          Cancel(1, id, u, updated)
    \/ \E u \in Users, exact \in BOOLEAN : GetUserAppointments(1, u, exact)
    \/ \E d \in QueryDoctors, exact \in BOOLEAN :
          GetDoctorAppointmentsToday(1, d, exact)
    \/ \E d \in QueryDoctors, exact \in BOOLEAN :
          GetDoctorPastWeekAppointments(1, d, exact)
    \/ Return(1)
    \/ Tick

SpecQueries == Init /\ [][NextQueries]_vars

\* ------------------------------------------------------------------------
\* A fresh instance on the file another instance has written
\* ------------------------------------------------------------------------

\* appointment_service = AppointmentService() in a new process: the empty
\* dict, the counter 0, then _load_from_file
Construct(i) ==
    /\ pc[i] = "idle"
    /\ LET l == _load_from_file(<< >>, 0, file)
       IN  /\ appointments' = [appointments EXCEPT ![i] = l.appointments]
           /\ counter' = [counter EXCEPT ![i] = l.counter]
    /\ Done(i, [op |-> "init"])
    /\ NotWritten
    /\ UNCHANGED <<today, now, pend>>
    /\ UNCHANGED catalog

\* the process of instance i ends, and its dict and counter with it
Exit(i) ==
    /\ pc[i] = "done"
    /\ call[i].op = "init"
    /\ pc' = [pc EXCEPT ![i] = "idle"]
    /\ call' = [call EXCEPT ![i] = NoCall]
    /\ appointments' = [appointments EXCEPT ![i] = << >>]
    /\ counter' = [counter EXCEPT ![i] = 0]
    /\ UNCHANGED <<file, today, now, pend, overlap, lastWriter>>
    /\ UNCHANGED catalog

\* instance 1 serves its calls and writes the file; between two calls a
\* second process may start on the file, and end
NextRoundTrip ==
    \/ pc[2] = "idle" /\ \E req \in Requests,
                            created, updated \in ClockMicros :
                            Book(1, req, created, updated)
    \/ pc[2] = "idle" /\ \E id \in ReqIds, u \in Users,
                            updated \in ClockMicros :
                            Cancel(1, id, u, updated)
    \/ pc[2] = "idle" /\ \E id \in ReqIds, dd \in CatalogDoctors,
                            updated \in ClockMicros :
                            CancelByDoctor(1, id, dd[2], "on leave", updated)
    \/ Return(1)
    \/ Tick
    \/ pc[1] = "idle" /\ Construct(2)
    \/ Exit(2)

SpecRoundTrip == Init /\ [][NextRoundTrip]_vars

\* ------------------------------------------------------------------------
\* Two instances on one file: book_appointment in its three file accesses
\* ------------------------------------------------------------------------

\* book_appointment up to its reload: self._load_from_file()
BeginBook(i, req) ==
    /\ pc[i] = "idle"
    /\ LET l == _load_from_file(appointments[i], counter[i], file)
       IN  /\ appointments' = [appointments EXCEPT ![i] = l.appointments]
           /\ counter' = [counter EXCEPT ![i] = l.counter]
    /\ pc' = [pc EXCEPT ![i] = "loaded"]
    /\ pend' = [pend EXCEPT ![i] = [op |-> "book", req |-> req]]
    /\ overlap' = [overlap EXCEPT ![i] = {}]
    /\ UNCHANGED <<file, today, now, call, lastWriter>>
    /\ UNCHANGED catalog

\* book_appointment merging its dict into the dict of the file before it
\* writes
BookOpenMerging(i, created, updated) ==
    /\ pc[i] = "loaded"
    /\ LET b == book_appointment(appointments[i], counter[i], pend[i].req,
                                today, now, created)
           merged == LoadItems(file.appointments, b.appointments)
       IN  /\ b.saved => counter[i] < MaxCounter
           /\ appointments' = [appointments EXCEPT ![i] =
                                 IF b.saved THEN merged ELSE b.appointments]
           /\ counter' = [counter EXCEPT ![i] = b.counter]
           /\ IF b.saved
              THEN /\ file' = Truncated
                   /\ Written(i)
                   /\ pc' = [pc EXCEPT ![i] = "writing"]
                   /\ pend' = [pend EXCEPT ![i] =
                                 [op |-> "book", req |-> pend[i].req,
                                  res |-> b.res, before |-> file,
                                  updated |-> updated]]
                   /\ UNCHANGED call
              ELSE /\ NotWritten
                   /\ Done(i, [op |-> "book", req |-> pend[i].req,
                               res |-> b.res, raced |-> overlap[i]])
                   /\ pend' = [pend EXCEPT ![i] = NoCall]
    /\ UNCHANGED <<today, now>>
    /\ UNCHANGED catalog

\* book_appointment from its validation to the open(self.data_file, "w") of
\* its _save_to_file, which empties the file; a rejected request returns
\* without it. The clock is read for created_at, and for the last_updated
\* of the text, which is built before the file is opened.
BookOpen(i, created, updated) ==
    /\ pc[i] = "loaded"
    /\ LET b == book_appointment(appointments[i], counter[i], pend[i].req,
                                today, now, created)
       IN  /\ b.saved => counter[i] < MaxCounter
           /\ appointments' = [appointments EXCEPT ![i] = b.appointments]
           /\ counter' = [counter EXCEPT ![i] = b.counter]
           /\ IF b.saved
              THEN /\ file' = Truncated
                   /\ Written(i)
                   /\ pc' = [pc EXCEPT ![i] = "writing"]
                   /\ pend' = [pend EXCEPT ![i] =
                                 [op |-> "book", req |-> pend[i].req,
                                  res |-> b.res, before |-> file,
                                  updated |-> updated]]
                   /\ UNCHANGED call
              ELSE /\ NotWritten
                   /\ Done(i, [op |-> "book", req |-> pend[i].req,
                               res |-> b.res, raced |-> overlap[i]])
                   /\ pend' = [pend EXCEPT ![i] = NoCall]
    /\ UNCHANGED <<today, now>>
    /\ UNCHANGED catalog

\* json.dump(data, f, indent=2) and the close of the file, which puts the
\* text into it, and the rest of book_appointment
Dump(i) ==
    /\ pc[i] = "writing"
    /\ file' = Overwritten(file, _save_to_file(appointments[i], counter[i],
                                               pend[i].updated))
    /\ Written(i)
    /\ Done(i, [op |-> "book", req |-> pend[i].req, res |-> pend[i].res,
                raced |-> overlap[i]])
    /\ pend' = [pend EXCEPT ![i] = NoCall]
    /\ UNCHANGED <<appointments, counter, today, now>>
    /\ UNCHANGED catalog

\* the requests of the two instances: Dr. Harsh Sharma on the Wednesday,
\* at 09:30 for either user, at 10:00 for user_2
RaceRequests ==
    {req \in Requests : /\ req.date = 2 /\ req.doctor = "Dr. Harsh Sharma"
                        /\ (req.user_id = "user_1" => req.time = Hour(9) + 30)}

NextRace ==
    \/ \E i \in Instances, req \in RaceRequests : BeginBook(i, req)
    \/ \E i \in Instances, created, updated \in Micros :
          BookOpen(i, created, updated)
    \/ \E i \in Instances : Dump(i)
    \/ \E i \in Instances : Return(i)

SpecRace == Init /\ [][NextRace]_vars

\* ------------------------------------------------------------------------
\* Vocabulary of the properties
\* ------------------------------------------------------------------------

\* the confirmed appointments of a dict
Confirmed(m) == {apt \in Range(m) : apt.status = "confirmed"}

\* instance 1 has just returned from book_appointment (in the next state)
BookReturns ==
    /\ pc[1] = "idle"
    /\ pc'[1] = "done"
    /\ call'[1].op = "book"

\* the request names a department and a doctor of it, a working day and a
\* working time of the doctor, and a date that is not before the day
StructureValid(req, day) ==
    /\ req.department \in DOMAIN DEPARTMENTS
    /\ req.doctor \in Range(DEPARTMENTS[req.department])
    /\ req.date # BadDate
    /\ req.date >= day
    /\ Weekday(req.date) \in DOCTOR_SCHEDULE[req.doctor].days
    /\ req.time \in Range(ALL_TIME_SLOTS)
    /\ DOCTOR_SCHEDULE[req.doctor].start <= req.time
    /\ req.time < DOCTOR_SCHEDULE[req.doctor].end

\* the patient's name, age and gender are acceptable
PatientValid(req) ==
    /\ Len(Strip(req.patient_name)) >= 2
    /\ req.patient_age \in 0..150
    /\ req.patient_gender \in {"Male", "Female", "Other"}

\* a valid request, whatever the store holds
OtherwiseValid(req, day) == StructureValid(req, day) /\ PatientValid(req)

SameSlot(a, b) == a.doctor = b.doctor /\ a.date = b.date /\ a.time = b.time

\* ------------------------------------------------------------------------
\* C1
\* ------------------------------------------------------------------------

NoDoctorDoubleBooking(m) ==
    \A j, k \in DOMAIN m :
        (j # k /\ m[j].status = "confirmed" /\ m[k].status = "confirmed")
            => ~SameSlot(m[j], m[k])

\* C1: with one instance serving its calls one at a time, no two confirmed
\* appointments, in memory or in the file, share (doctor, date, time).
C1_DoctorSlotUnique ==
    /\ NoDoctorDoubleBooking(appointments[1])
    /\ NoDoctorDoubleBooking(file.appointments)

\* a slot was booked, cancelled and booked again by the other user
C1_Witness ==
    \E j, k \in DOMAIN file.appointments :
        /\ SameSlot(file.appointments[j], file.appointments[k])
        /\ file.appointments[j].status # "confirmed"
        /\ file.appointments[k].status = "confirmed"
        /\ file.appointments[j].user_id # file.appointments[k].user_id

\* ------------------------------------------------------------------------
\* C3
\* ------------------------------------------------------------------------

\* C3: an otherwise valid booking of a (doctor, date, time) that a confirmed
\* appointment of another user holds fails with the doctor-conflict reason,
\* naming the doctor and the time, and changes neither the dict, the counter
\* nor the file.
C3_DoctorConflictRejected ==
    [][(/\ BookReturns
        /\ OtherwiseValid(call'[1].req, today)
        /\ \E apt \in Confirmed(file.appointments) :
              /\ SameSlot(apt, call'[1].req)
              /\ apt.user_id # call'[1].req.user_id)
       => (/\ call'[1].res =
                Failure("Doctor already booked", "", call'[1].req.doctor,
                        call'[1].req.date, call'[1].req.time, -1, -1)
           /\ appointments'[1] = appointments[1]
           /\ counter'[1] = counter[1]
           /\ file' = file)]_vars

\* a booking was rejected with the doctor-conflict reason, the slot being
\* held by another user
C3_Witness ==
    /\ call[1].op = "book"
    /\ ~call[1].res.success
    /\ call[1].res.error.reason = "Doctor already booked"
    /\ \E apt \in Confirmed(file.appointments) :
          /\ SameSlot(apt, call[1].req)
          /\ apt.user_id # call[1].req.user_id

\* ------------------------------------------------------------------------
\* C4
\* ------------------------------------------------------------------------

NoUserDoubleTime(m) ==
    \A j, k \in DOMAIN m :
        (j # k /\ m[j].status = "confirmed" /\ m[k].status = "confirmed"
         /\ m[j].user_id = m[k].user_id)
            => ~(m[j].date = m[k].date /\ m[j].time = m[k].time)

\* C4: with one instance, no user holds two confirmed appointments at the
\* same date and time, whatever the doctors.
C4_UserTimeUnique ==
    /\ NoUserDoubleTime(appointments[1])
    /\ NoUserDoubleTime(file.appointments)

\* a user holding an appointment was refused another doctor at that time
C4_Witness ==
    /\ call[1].op = "book"
    /\ ~call[1].res.success
    /\ call[1].res.error.reason = "User already booked at this time"
    /\ call[1].res.error.doctor # call[1].req.doctor

\* ------------------------------------------------------------------------
\* C5
\* ------------------------------------------------------------------------

\* the user of the request holds a confirmed appointment with the requested
\* doctor on the requested date, at another time
HoldsSameDoctorThatDay(m, req) ==
    \E apt \in Confirmed(m) :
        /\ apt.user_id = req.user_id
        /\ apt.doctor = req.doctor
        /\ apt.date = req.date
        /\ apt.time # req.time

\* no confirmed appointment holds the requested (doctor, date, time)
SlotFree(m, req) == \A apt \in Confirmed(m) : ~SameSlot(apt, req)

\* the user of the request holds no confirmed appointment at the requested
\* date and time
UserFree(m, req) ==
    \A apt \in Confirmed(m) :
        ~(apt.user_id = req.user_id /\ apt.date = req.date
          /\ apt.time = req.time)

NoUserDoctorDayDouble(m) ==
    \A j, k \in DOMAIN m :
        (j # k /\ m[j].status = "confirmed" /\ m[k].status = "confirmed"
         /\ m[j].user_id = m[k].user_id)
            => ~(m[j].doctor = m[k].doctor /\ m[j].date = m[k].date)

\* C5 as stated: a valid booking of the same doctor and date at a different,
\* free, working time by a user who holds a confirmed appointment with that
\* doctor on that date fails with the user-doctor-day-conflict reason.
C5_Original ==
    [][(/\ BookReturns
        /\ OtherwiseValid(call'[1].req, today)
        /\ HoldsSameDoctorThatDay(file.appointments, call'[1].req)
        /\ SlotFree(file.appointments, call'[1].req))
       => (/\ ~call'[1].res.success
           /\ call'[1].res.error.reason =
                 "User already booked with this doctor")]_vars

\* C5 as amended: such a booking always fails; its reason is the
\* user-doctor-day conflict when the user holds no confirmed appointment at
\* the requested time, and the user-time conflict when the user holds one
\* (with another doctor); and no user ever holds two confirmed appointments
\* with the same doctor on the same date.
C5_UserDoctorDay ==
    /\ [](NoUserDoctorDayDouble(appointments[1])
          /\ NoUserDoctorDayDouble(file.appointments))
    /\ [][(/\ BookReturns
           /\ OtherwiseValid(call'[1].req, today)
           /\ HoldsSameDoctorThatDay(file.appointments, call'[1].req)
           /\ SlotFree(file.appointments, call'[1].req))
          => (/\ ~call'[1].res.success
              /\ call'[1].res.error.reason =
                    (IF UserFree(file.appointments, call'[1].req)
                     THEN "User already booked with this doctor"
                     ELSE "User already booked at this time")
              /\ file' = file)]_vars

\* a booking of the same doctor at another, free time of the day was
\* rejected with the user-doctor-day-conflict reason
C5_Witness ==
    /\ call[1].op = "book"
    /\ ~call[1].res.success
    /\ call[1].res.error.reason = "User already booked with this doctor"
    /\ call[1].res.error.time # call[1].req.time
    /\ SlotFree(file.appointments, call[1].req)

\* ------------------------------------------------------------------------
\* C6
\* ------------------------------------------------------------------------

\* the (doctor, time) of the other confirmed appointments the user of the
\* request holds on its date
SameDayOthers(m, req, apt_id) ==
    {<<apt.doctor, apt.time>> :
        apt \in {x \in Confirmed(m) : /\ x.user_id = req.user_id
                                      /\ x.date = req.date
                                      /\ x.id # apt_id}}

\* C6: a user holding a confirmed appointment with one doctor can book
\* another doctor on that date at another time (the request valid, its slot
\* free, the user free at that time and not yet with that doctor that day);
\* and the message of every successful booking lists exactly the other
\* confirmed appointments the user holds on that date.
C6_OtherDoctorSameDay ==
    /\ []((call[1].op = "book" /\ call[1].res.success)
            => /\ Range(call[1].res.message.also) =
                     SameDayOthers(file.appointments, call[1].req,
                                   call[1].res.appointment.id)
               /\ Len(call[1].res.message.also) =
                     Cardinality(SameDayOthers(file.appointments, call[1].req,
                                               call[1].res.appointment.id)))
    /\ [][(/\ BookReturns
           /\ OtherwiseValid(call'[1].req, today)
           /\ SlotFree(file.appointments, call'[1].req)
           /\ UserFree(file.appointments, call'[1].req)
           /\ ~HoldsSameDoctorThatDay(file.appointments, call'[1].req)
           /\ \E apt \in Confirmed(file.appointments) :
                 /\ apt.user_id = call'[1].req.user_id
                 /\ apt.date = call'[1].req.date
                 /\ apt.doctor # call'[1].req.doctor)
          => (/\ call'[1].res.success
              /\ \A apt \in Confirmed(file.appointments) :
                    (apt.user_id = call'[1].req.user_id
                     /\ apt.date = call'[1].req.date)
                        => <<apt.doctor, apt.time>> \in
                               Range(call'[1].res.message.also))]_vars

\* a second doctor was booked on a day the user already holds an appointment,
\* and the message lists that appointment
C6_Witness ==
    /\ call[1].op = "book"
    /\ call[1].res.success
    /\ \E apt \in Confirmed(file.appointments) :
          /\ apt.user_id = call[1].req.user_id
          /\ apt.date = call[1].req.date
          /\ apt.doctor # call[1].req.doctor
          /\ apt.time # call[1].req.time
          /\ <<apt.doctor, apt.time>> \in Range(call[1].res.message.also)

\* ------------------------------------------------------------------------
\* C7
\* ------------------------------------------------------------------------

\* the reasons of the eleven checks, in the order of the specification
CheckReasons ==
    << {"Invalid department"},
       {"Doctor not in department"},
       {"Doctor not available on this day"},
       {"Invalid time"},
       {"Cannot book in the past", "Invalid date format"},
       {"Invalid patient name"},
       {"Invalid age"},
       {"Invalid gender"},
       {"Doctor already booked"},
       {"User already booked at this time"},
       {"User already booked with this doctor"} >>

\* the checks a request violates, on the dict m at the day
Violated(m, req, day) ==
    LET known == req.department \in DOMAIN DEPARTMENTS
    IN  {n \in 1..11 :
           \/ n = 1 /\ ~known
           \/ n = 2 /\ (~known \/ req.doctor \notin Range(DEPARTMENTS[req.department]))
           \/ n = 3 /\ _get_doctor_time_slots(req.doctor, req.date) = << >>
           \/ n = 4 /\ req.time \notin Range(_get_doctor_time_slots(req.doctor, req.date))
           \/ n = 5 /\ req.date # BadDate /\ req.date < day
           \/ n = 6 /\ Len(Strip(req.patient_name)) < 2
           \/ n = 7 /\ req.patient_age \notin 0..150
           \/ n = 8 /\ req.patient_gender \notin {"Male", "Female", "Other"}
           \/ n = 9 /\ ~SlotFree(m, req)
           \/ n = 10 /\ ~UserFree(m, req)
           \/ n = 11 /\ \E apt \in Confirmed(m) :
                            /\ apt.user_id = req.user_id
                            /\ apt.doctor = req.doctor
                            /\ apt.date = req.date}

\* the least element of a non-empty set of numbers
Least(S) == CHOOSE n \in S : \A k \in S : n <= k

\* C7: a booking succeeds when it violates no check, and otherwise fails with
\* the reason of the earliest check it violates, in the order of the eleven
\* checks.
C7_EarliestCheck ==
    [][BookReturns =>
        LET V == Violated(file.appointments, call'[1].req, today)
        IN  IF V = {} THEN call'[1].res.success
            ELSE /\ ~call'[1].res.success
                 /\ call'[1].res.error.reason \in CheckReasons[Least(V)]]_vars

\* a rejected booking that violates two patient checks and a conflict check
C7_Witness ==
    /\ call[1].op = "book"
    /\ ~call[1].res.success
    /\ {6, 7, 9} \subseteq Violated(file.appointments, call[1].req, today)
    /\ call[1].res.error.reason = "Invalid patient name"

\* ------------------------------------------------------------------------
\* C2
\* ------------------------------------------------------------------------

\* the calls of j and k booked the same (doctor, date, time) for two users,
\* both with success, j writing the file between the reload of k and the end
\* of its write, and nobody writing it since
RacedBookings(j, k) ==
    /\ j # k
    /\ call[j].op = "book" /\ call[j].res.success
    /\ call[k].op = "book" /\ call[k].res.success
    /\ SameSlot(call[j].req, call[k].req)
    /\ call[j].req.user_id # call[k].req.user_id
    /\ j \in call[k].raced
    /\ lastWriter = k

\* C2: with two instances on one file, whenever two bookings of the same
\* (doctor, date, time) have both reloaded before either wrote and both
\* returned success, the later write has replaced the file by the dict of
\* its instance: the appointment the earlier one wrote is no longer stored
\* (the file being one that json.load reads: two writes that overlap may
\* also leave a text it rejects, which stores neither).
C2_LaterCommitOverwrites ==
    \A j, k \in Instances :
        (RacedBookings(j, k) /\ file.readable)
            => /\ file.appointments = appointments[k]
               /\ file.counter = counter[k]
               /\ call[k].res.appointment \in Range(file.appointments)
               /\ call[j].res.appointment \notin Range(file.appointments)

\* the interleaving happened: both bookings returned success under the same
\* identifier, and the file holds the later one only
C2_Witness ==
    \E j, k \in Instances :
        /\ RacedBookings(j, k)
        /\ file.readable
        /\ call[j].res.appointment.id = call[k].res.appointment.id
        /\ Len(file.appointments) = 1

\* ------------------------------------------------------------------------
\* C8
\* ------------------------------------------------------------------------

\* a sequence of slots in chronological order, without repetition
Chronological(slots) ==
    \A j, k \in DOMAIN slots : j < k => slots[j] < slots[k]

\* the times of the confirmed appointments of a doctor, date and department
BookedTimes(m, date, department, doctor) ==
    {apt.time : apt \in {x \in Confirmed(m) : /\ x.doctor = doctor
                                              /\ x.date = date
                                              /\ x.department = department}}

\* C8: for a date after today, get_available_slots returns the working slots
\* of the doctor on the date without the times of the confirmed appointments
\* of that doctor, date and department, in chronological order; and after a
\* successful booking of a slot of such a date, the query leaves it out.
C8_AvailableSlotsFuture ==
    /\ (call[1].op = "slots" /\ call[1].date # BadDate /\ call[1].date > today)
          => /\ Chronological(call[1].res)
             /\ Range(call[1].res) =
                   Range(_get_doctor_time_slots(call[1].doctor, call[1].date))
                   \ BookedTimes(file.appointments, call[1].date,
                                 call[1].department, call[1].doctor)
    /\ (call[1].op = "book" /\ call[1].res.success /\ call[1].req.date > today)
          => call[1].req.time \notin
                Range(get_available_slots(
                        _load_from_file(appointments[1], counter[1],
                                     file).appointments,
                        call[1].req.date, call[1].req.department,
                        call[1].req.doctor, today, now))

\* a query of a date after today returned working slots, a booked one left
\* out and a cancelled one back in
C8_Witness ==
    /\ call[1].op = "slots"
    /\ call[1].date # BadDate
    /\ call[1].date > today
    /\ call[1].res # << >>
    /\ BookedTimes(file.appointments, call[1].date, call[1].department,
                   call[1].doctor) # {}
    /\ \E apt \in Range(file.appointments) :
          /\ apt.status # "confirmed"
          /\ apt.doctor = call[1].doctor
          /\ apt.date = call[1].date
          /\ apt.department = call[1].department
          /\ apt.time \in Range(call[1].res)

\* ------------------------------------------------------------------------
\* C9
\* ------------------------------------------------------------------------

\* C9: for every date before today, get_available_slots returns the empty
\* list, whatever the department and the doctor.
C9_PastDateNoSlots ==
    (call[1].op = "slots" /\ call[1].date # BadDate /\ call[1].date < today)
        => call[1].res = << >>

\* a query of a past date for a doctor that is in no registry, whose default
\* slots that day are not empty
C9_Witness ==
    /\ call[1].op = "slots"
    /\ call[1].date # BadDate
    /\ call[1].date < today
    /\ call[1].doctor \notin DOMAIN DOCTOR_SCHEDULE
    /\ _get_doctor_time_slots(call[1].doctor, call[1].date) # << >>
    /\ call[1].res = << >>

\* ------------------------------------------------------------------------
\* C10: _get_doctor_time_slots on every doctor and every day of two weeks
\* ------------------------------------------------------------------------

SlotDoctors == DOMAIN DOCTOR_SCHEDULE \cup {"Dr. Nobody"}

SlotDates == 0..13 \cup {BadDate}

\* _get_doctor_time_slots(doctor, date)
GetDoctorTimeSlotsCall(i, doctor, date) ==
    /\ pc[i] = "idle"
    /\ Done(i, [op |-> "working_slots", doctor |-> doctor, date |-> date,
                res |-> _get_doctor_time_slots(doctor, date)])
    /\ UNCHANGED <<appointments, counter, file, today, now, pend, overlap,
                   lastWriter>>
    /\ UNCHANGED catalog

NextSlots ==
    \/ \E doctor \in SlotDoctors, date \in SlotDates :
          GetDoctorTimeSlotsCall(1, doctor, date)
    \/ Return(1)

SpecSlots == Init /\ [][NextSlots]_vars

\* the working days of a doctor: those of the registry, and Monday to Friday
\* (the default schedule) for a doctor that is not in it
WorkingDays(doctor) ==
    IF doctor \in DOMAIN DOCTOR_SCHEDULE THEN DOCTOR_SCHEDULE[doctor].days
    ELSE {0, 1, 2, 3, 4}

\* C10: the working slots of any doctor on any date are slots of the grid,
\* and there are none when the weekday of the date is not a working day of
\* the doctor.
C10_WorkingSlots ==
    call[1].op = "working_slots"
        => /\ Range(call[1].res) \subseteq Range(ALL_TIME_SLOTS)
           /\ (call[1].date # BadDate
               /\ Weekday(call[1].date) \notin WorkingDays(call[1].doctor))
                 => call[1].res = << >>

\* ------------------------------------------------------------------------
\* C11
\* ------------------------------------------------------------------------

\* the grid from "09:00" up to but excluding "17:00": sixteen slots
DefaultGrid == [k \in 1..16 |-> Hour(9) + 30 * (k - 1)]

\* C11: for a doctor that is not in the schedule registry, the working slots
\* are the grid from 09:00 up to but excluding 17:00 on a Monday-to-Friday
\* date, and empty on a Saturday or Sunday date.
C11_DefaultSchedule ==
    (/\ call[1].op = "working_slots"
     /\ call[1].doctor \notin DOMAIN DOCTOR_SCHEDULE
     /\ call[1].date # BadDate)
        => call[1].res = (IF Weekday(call[1].date) \in {0, 1, 2, 3, 4}
                          THEN DefaultGrid ELSE << >>)

\* ------------------------------------------------------------------------
\* C12
\* ------------------------------------------------------------------------

\* instance 1 has just returned from cancel_appointment (in the next state)
CancelReturns ==
    /\ pc[1] = "idle"
    /\ pc'[1] = "done"
    /\ call'[1].op = "cancel"

\* C12: cancel_appointment fails with "Appointment not found" when the id is
\* not stored, and with "Unauthorized" when the record stored under it is of
\* another user; in both cases the dict and the file stay as they were.
C12_CancelErrors ==
    [][CancelReturns =>
        LET id == call'[1].appointment_id
            stored == id \in Keys(file.appointments)
        IN  /\ ~stored =>
                  /\ call'[1].res =
                        [success |-> FALSE, error |-> "Appointment not found"]
                  /\ appointments'[1] = appointments[1]
                  /\ file' = file
            /\ (stored /\ Get(file.appointments, id).user_id
                              # call'[1].user_id) =>
                  /\ call'[1].res =
                        [success |-> FALSE, error |-> "Unauthorized"]
                  /\ appointments'[1] = appointments[1]
                  /\ file' = file]_vars

\* a user was refused the cancellation of a confirmed appointment of the
\* other user, after an unknown id was refused
C12_Witness ==
    /\ call[1].op = "cancel"
    /\ call[1].res = [success |-> FALSE, error |-> "Unauthorized"]
    /\ call[1].appointment_id \in Keys(file.appointments)
    /\ Get(file.appointments, call[1].appointment_id).status = "confirmed"
    /\ Get(file.appointments, call[1].appointment_id).user_id
          # call[1].user_id

\* ------------------------------------------------------------------------
\* C13
\* ------------------------------------------------------------------------

\* the appointments of the dict that were cancelled, by patient or doctor
Cancelled(m) ==
    {apt \in Range(m) : apt.status \in {"cancelled", "cancelled_by_doctor"}}

\* the (date, time) is after the clock
Future(date, time) == date > today \/ (date = today /\ time > now)

\* a cancelled appointment of another user stands at the requested (doctor,
\* date, time), which no confirmed appointment holds
ReleasedForOther(m, req) ==
    /\ SlotFree(m, req)
    /\ \E apt \in Cancelled(m) :
          SameSlot(apt, req) /\ apt.user_id # req.user_id

\* after a cancellation, a query of the doctor and the date returns the time
\* again, as long as it is in the future and nobody has booked it since
SlotsReturnCancelled ==
    (call[1].op = "slots" /\ call[1].date # BadDate)
        => \A apt \in Cancelled(file.appointments) :
              (/\ apt.doctor = call[1].doctor
               /\ apt.date = call[1].date
               /\ Future(apt.date, apt.time)
               /\ SlotFree(file.appointments, apt))
                  => apt.time \in Range(call[1].res)

\* C13 as stated: after a successful cancellation of a confirmed future
\* appointment, availableSlots returns its time again, and every valid
\* booking of the (doctor, date, time) by another user succeeds.
C13_Original ==
    /\ []SlotsReturnCancelled
    /\ [][(/\ BookReturns
           /\ OtherwiseValid(call'[1].req, today)
           /\ ReleasedForOther(file.appointments, call'[1].req))
          => call'[1].res.success]_vars

\* C13 as amended: availableSlots returns the time again; a valid booking
\* of the (doctor, date, time) by another user succeeds when that user holds
\* no confirmed appointment at that date and time and none with that doctor
\* on that date, and otherwise fails with the reason of the user's own
\* conflict, never with the doctor-conflict reason.
C13_SlotReleased ==
    /\ []SlotsReturnCancelled
    /\ [][(/\ BookReturns
           /\ OtherwiseValid(call'[1].req, today)
           /\ ReleasedForOther(file.appointments, call'[1].req))
          => IF /\ UserFree(file.appointments, call'[1].req)
                /\ ~HoldsSameDoctorThatDay(file.appointments, call'[1].req)
             THEN /\ call'[1].res.success
                  /\ call'[1].res.appointment \in Confirmed(file'.appointments)
             ELSE /\ ~call'[1].res.success
                  /\ call'[1].res.error.reason \in
                        {"User already booked at this time",
                         "User already booked with this doctor"}]_vars

\* the other user has booked the (doctor, date, time) of an appointment the
\* doctor had cancelled
C13_Witness ==
    /\ call[1].op = "book"
    /\ call[1].res.success
    /\ \E apt \in Range(file.appointments) :
          /\ apt.status = "cancelled_by_doctor"
          /\ SameSlot(apt, call[1].req)
          /\ apt.user_id # call[1].req.user_id

\* ------------------------------------------------------------------------
\* C14
\* ------------------------------------------------------------------------

\* from the dict m to the dict n no record is dropped, and no record that
\* is not confirmed in m is confirmed in n
NoneBackToConfirmed(m, n) ==
    \A k \in DOMAIN m :
        /\ m[k].id \in Keys(n)
        /\ m[k].status # "confirmed"
              => Get(n, m[k].id).status # "confirmed"

\* C14: under any sequence of bookings and cancellations by patient or
\* doctor, a stored appointment whose status is no longer confirmed is never
\* set back to confirmed, in the dict or in the file.
C14_NeverBackToConfirmed ==
    [][/\ NoneBackToConfirmed(appointments[1], appointments'[1])
       /\ NoneBackToConfirmed(file.appointments, file'.appointments)]_vars

\* the doctor was refused the cancellation of an appointment that is
\* already cancelled, and the appointment is still cancelled
C14_Witness ==
    /\ call[1].op = "cancel_by_doctor"
    /\ ~call[1].res.success
    /\ call[1].res.error = "Cannot cancel"
    /\ Get(file.appointments, call[1].appointment_id).status
          \in {"cancelled", "cancelled_by_doctor"}

\* ------------------------------------------------------------------------
\* C15
\* ------------------------------------------------------------------------

\* the queries that mark the appointments of the past as expired
MarkingQueries == {"user_appointments", "doctor_today", "doctor_past_week"}

\* C15: no appointment of the dict or of the file has the status expired;
\* an appointment a query returns, marked expired or not, is stored as
\* confirmed in both.
C15_NeverStoresExpired ==
    /\ \A apt \in Range(appointments[1]) \cup Range(file.appointments) :
          apt.status # "expired"
    /\ call[1].op \in MarkingQueries
          => \A r \in Range(call[1].res) :
                /\ [r EXCEPT !.status = "confirmed"] \in Range(appointments[1])
                /\ [r EXCEPT !.status = "confirmed"]
                      \in Range(file.appointments)

\* the list of a patient holds an appointment marked expired and one that is
\* still to come
C15_Witness ==
    /\ call[1].op = "user_appointments"
    /\ \E r \in Range(call[1].res) : r.status = "expired"
    /\ \E r \in Range(call[1].res) : r.status = "confirmed"

\* ------------------------------------------------------------------------
\* C16
\* ------------------------------------------------------------------------

\* instance 1 has just returned from cancel_appointment_by_doctor
DoctorCancelReturns ==
    /\ pc[1] = "idle"
    /\ pc'[1] = "done"
    /\ call'[1].op = "cancel_by_doctor"

\* the dict and the file are as they were before the call
StoreUnchanged ==
    /\ appointments'[1] = appointments[1]
    /\ counter'[1] = counter[1]
    /\ file' = file

\* C16: cancel_appointment_by_doctor fails with "Appointment not found",
\* then "Unauthorized" (the record is of another doctor), then "Cannot
\* cancel" (the record is not confirmed), in that order, leaving the dict
\* and the file as they were; otherwise it succeeds, stores the status
\* cancelled_by_doctor on that record alone, writes the file, and returns
\* the user id of the patient and the reason.
C16_DoctorCancel ==
    [][DoctorCancelReturns =>
        LET id == call'[1].appointment_id
            old == file.appointments
        IN  IF id \notin Keys(old)
            THEN /\ call'[1].res = [success |-> FALSE,
                                    error |-> "Appointment not found"]
                 /\ StoreUnchanged
            ELSE IF Get(old, id).doctor # call'[1].doctor_name
            THEN /\ call'[1].res = [success |-> FALSE,
                                    error |-> "Unauthorized"]
                 /\ StoreUnchanged
            ELSE IF Get(old, id).status # "confirmed"
            THEN /\ call'[1].res = [success |-> FALSE,
                                    error |-> "Cannot cancel",
                                    status |-> Get(old, id).status]
                 /\ StoreUnchanged
            ELSE /\ call'[1].res.success
                 /\ call'[1].res.patient_user_id = Get(old, id).user_id
                 /\ call'[1].res.message.reason = call'[1].reason
                 /\ Len(file'.appointments) = Len(old)
                 /\ \A k \in DOMAIN old :
                       file'.appointments[k] =
                          IF old[k].id = id
                          THEN [old[k] EXCEPT !.status = "cancelled_by_doctor"]
                          ELSE old[k]
                 /\ file'.counter = file.counter
                 /\ appointments'[1] = file'.appointments]_vars

\* the doctor has cancelled a confirmed appointment, giving a reason
C16_Witness ==
    /\ call[1].op = "cancel_by_doctor"
    /\ call[1].res.success
    /\ call[1].res.message.reason = "on leave"
    /\ Get(file.appointments, call[1].appointment_id).status
          = "cancelled_by_doctor"
    /\ Get(file.appointments, call[1].appointment_id).user_id
          = call[1].res.patient_user_id

\* ------------------------------------------------------------------------
\* C17
\* ------------------------------------------------------------------------

\* C17: cancel_appointment called by the owner of a stored record returns
\* success whatever the status of the record, and leaves the record with the
\* status cancelled and every other record as it was; called on a record it
\* has already cancelled, it leaves the stored records as they are.
C17_PatientCancelIdempotent ==
    [][(/\ CancelReturns
        /\ call'[1].appointment_id \in Keys(file.appointments)
        /\ Get(file.appointments, call'[1].appointment_id).user_id
              = call'[1].user_id)
       => LET id == call'[1].appointment_id
              old == file.appointments
          IN  /\ call'[1].res = [success |-> TRUE, message |-> id]
              /\ Len(file'.appointments) = Len(old)
              /\ \A k \in DOMAIN old :
                    file'.appointments[k] =
                       IF old[k].id = id
                       THEN [old[k] EXCEPT !.status = "cancelled"]
                       ELSE old[k]
              /\ appointments'[1] = file'.appointments
              /\ Get(old, id).status = "cancelled"
                    => file'.appointments = old]_vars

\* the owner has cancelled an appointment that was already cancelled
C17_Witness ==
    /\ call[1].op = "cancel"
    /\ call[1].res.success
    /\ call[1].was = "cancelled"
    /\ Get(file.appointments, call[1].appointment_id).status = "cancelled"

\* ------------------------------------------------------------------------
\* C18
\* ------------------------------------------------------------------------

\* the numeric suffix of an identifier "APT-<day>-<counter>"
Suffix(id) == id[2]

\* the suffixes of the records of a dict increase in the order of insertion
SuffixesIncrease(m) ==
    \A j, k \in DOMAIN m : j < k => Suffix(m[j].id) < Suffix(m[k].id)

\* C18: with one instance, the only writer of the file, the suffix of the
\* identifier a successful booking returns is greater than the suffix of
\* every identifier returned before (every record stored, none being ever
\* removed), whatever queries, cancellations and rejected bookings came in
\* between.
C18_SuffixesIncrease ==
    /\ [](SuffixesIncrease(appointments[1])
          /\ SuffixesIncrease(file.appointments))
    /\ [][(BookReturns /\ call'[1].res.success)
          => /\ \A apt \in Range(file.appointments)
                           \cup Range(appointments[1]) :
                    Suffix(apt.id) < Suffix(call'[1].res.appointment.id)
             /\ Keys(file.appointments) \subseteq Keys(file'.appointments)
             /\ call'[1].res.appointment.id \in Keys(file'.appointments)]_vars

\* a second booking succeeded, on another day than the first, which has been
\* cancelled since
C18_Witness ==
    /\ call[1].op = "book"
    /\ call[1].res.success
    /\ Suffix(call[1].res.appointment.id) = 2
    /\ \E apt \in Range(file.appointments) :
          /\ Suffix(apt.id) = 1
          /\ apt.status # "confirmed"
          /\ apt.id[1] # call[1].res.appointment.id[1]

\* ------------------------------------------------------------------------
\* C19
\* ------------------------------------------------------------------------

\* C19: no two successful bookings, of two instances sharing the file under
\* any interleaving of their reloads and writes, return the same identifier,
\* and a successful booking never takes an identifier under which the file
\* already stores a record.
C19_IdsUnique ==
    /\ [](\A j, k \in Instances :
             (/\ j # k
              /\ call[j].op = "book" /\ call[j].res.success
              /\ call[k].op = "book" /\ call[k].res.success)
                => call[j].res.appointment.id # call[k].res.appointment.id)
    /\ [][\A i \in Instances :
             (/\ pc[i] = "loaded"
              /\ pc'[i] = "writing")
                => pend'[i].res.appointment.id
                      \notin Keys(file.appointments)]_vars

\* ------------------------------------------------------------------------
\* C20
\* ------------------------------------------------------------------------

\* C20: the file being the snapshot instance 1 has written (its dict and
\* its counter), a fresh instance that loads it holds the same records, every
\* field equal, and the same counter.
C20_RoundTrip ==
    (call[2].op = "init" /\ file.exists)
        => /\ \E updated \in Micros :
                 file = _save_to_file(appointments[1], counter[1], updated)
           /\ Range(appointments[2]) = Range(appointments[1])
           /\ Len(appointments[2]) = Len(appointments[1])
           /\ \A apt \in Range(appointments[2]) :
                 DOMAIN apt = AppointmentFields
           /\ counter[2] = counter[1]

\* a fresh instance has loaded two appointments, one confirmed, one
\* cancelled by the doctor, and the counter 2
C20_Witness ==
    /\ call[2].op = "init"
    /\ counter[2] = 2
    /\ \E a, b \in Range(appointments[2]) :
          /\ a.status = "confirmed"
          /\ b.status = "cancelled_by_doctor"
          /\ a.patient_name = <<"A", "l">>
          /\ a.patient_age = 30

\* ------------------------------------------------------------------------
\* The write of the file in its two steps, and a reader beside it
\* ------------------------------------------------------------------------

\* get_all_appointments()
GetAllAppointments(i) ==
    Query(i, [op |-> "all_appointments", res |-> << >>],
          get_all_appointments(
              _load_from_file(appointments[i], counter[i], file).appointments))

\* the process of instance i ends before json.dump has written the file; the
\* next process imports the module: the empty dict, the counter 0, then
\* _load_from_file
Kill(i) ==
    /\ pc[i] = "writing"
    /\ LET l == _load_from_file(<< >>, 0, file)
       IN  /\ appointments' = [appointments EXCEPT ![i] = l.appointments]
           /\ counter' = [counter EXCEPT ![i] = l.counter]
    /\ pc' = [pc EXCEPT ![i] = "idle"]
    /\ pend' = [pend EXCEPT ![i] = NoCall]
    /\ UNCHANGED <<file, today, now, call, overlap, lastWriter>>
    /\ UNCHANGED catalog

\* instance 1 books, writing the file in two steps; instance 2 reads
NextStore ==
    \/ \E req \in RaceRequests : BeginBook(1, req)
    \/ \E created, updated \in Micros : BookOpen(1, created, updated)
    \/ Dump(1)
    \/ Kill(1)
    \/ GetAllAppointments(2)
    \/ \E i \in Instances : Return(i)
    \/ Tick

SpecStore == Init /\ [][NextStore]_vars

\* ------------------------------------------------------------------------
\* C21: if the file is unreadable or corrupt, a reload raises no error and
\* leaves the instance with the empty snapshot (no appointment, counter 0),
\* whatever its dict and counter held before: here for the reload that
\* get_all_appointments of instance 2 makes.
\* ------------------------------------------------------------------------

\* instance 2 reloads (inside a query) a file that json.load rejects
ReloadsCorrupt ==
    /\ pc[2] = "idle"
    /\ pc'[2] = "done"
    /\ file.exists
    /\ ~file.readable

C21_CorruptReloadEmpties ==
    [][ReloadsCorrupt => (appointments'[2] = << >> /\ counter'[2] = 0)]_vars

\* ------------------------------------------------------------------------
\* C22: the write of the file is atomic: at every moment, also inside a
\* write, after an interrupted one and when another instance reads, the
\* file holds a complete snapshot, the one before the write or the new one,
\* never an empty or partial text.
\* ------------------------------------------------------------------------

C22_CommitAtomic ==
    /\ file.exists => file.readable
    /\ pc[1] = "writing" =>
          file \in {pend[1].before,
                    _save_to_file(appointments[1], counter[1],
                                  pend[1].updated)}

\* ------------------------------------------------------------------------
\* Calls with a missing date or time: the tool calls of chat_service pass
\* args.get("date") and args.get("time"), None when the argument is absent
\* ------------------------------------------------------------------------

\* None, passed where a date or a time string is expected
NoneValue == -2

\* _get_doctor_time_slots raises: datetime.strptime(None, "%Y-%m-%d") of line
\* 144 is a TypeError, which "except ValueError" does not catch
get_doctor_time_slots_raises(doctor, date) ==
    /\ doctor \in DOMAIN DOCTOR_SCHEDULE
    /\ date = NoneValue

\* get_available_slots raises: in _get_doctor_time_slots, or at its own
\* strptime of line 177, reached when the doctor has slots
get_available_slots_raises(date, department, doctor) ==
    \/ get_doctor_time_slots_raises(doctor, date)
    \/ /\ doctor \notin DOMAIN DOCTOR_SCHEDULE
       /\ date = NoneValue

\* book_appointment raises: past the tests of department and doctor, in
\* _get_doctor_time_slots, or at its own strptime of line 209, reached when
\* the time is one of the doctor's slots
book_appointment_raises(req) ==
    /\ req.department \in DOMAIN catalog
    /\ req.doctor \in Range(catalog[req.department])
    /\ \/ get_doctor_time_slots_raises(req.doctor, req.date)
       \/ /\ req.doctor \notin DOMAIN DOCTOR_SCHEDULE
          /\ req.time \in Range(_get_doctor_time_slots(req.doctor, req.date))
          /\ req.date = NoneValue

\* the exception a call ends with, in place of its result
Raised == [raised |-> "TypeError"]

\* requests with the date or the time missing, some also with a wrong doctor
\* or department or an invalid patient
NullRequests ==
    {Request("user_1", dd, date, time, p) :
        dd \in CatalogDoctors \cup WrongDoctors,
        date \in {2, BadDate, NoneValue}, time \in {Hour(10), NoneValue},
        p \in {ValidPatient, << <<"A", "l">>, 0, "female" >>}}

\* book_appointment(user_id, ..., date, time), the exception included
BookAny(i, req, created, updated) ==
    IF book_appointment_raises(req)
    THEN /\ pc[i] = "idle"
         /\ LET l == _load_from_file(appointments[i], counter[i], file)
            IN  /\ appointments' = [appointments EXCEPT ![i] = l.appointments]
                /\ counter' = [counter EXCEPT ![i] = l.counter]
         /\ Done(i, [op |-> "book", req |-> req, res |-> Raised,
                     raced |-> {}])
         /\ NotWritten
         /\ UNCHANGED <<today, now, pend, catalog>>
    ELSE Book(i, req, created, updated)

\* get_available_slots(date, department, doctor), the exception included
GetAvailableSlotsAny(i, date, department, doctor) ==
    IF get_available_slots_raises(date, department, doctor)
    THEN /\ pc[i] = "idle"
         /\ LET l == _load_from_file(appointments[i], counter[i], file)
            IN  /\ appointments' = [appointments EXCEPT ![i] = l.appointments]
                /\ counter' = [counter EXCEPT ![i] = l.counter]
         /\ Done(i, [op |-> "slots", date |-> date,
                     department |-> department, doctor |-> doctor,
                     res |-> Raised])
         /\ NotWritten
         /\ UNCHANGED <<today, now, pend, catalog>>
    ELSE GetAvailableSlots(i, date, department, doctor)

\* one instance called with every kind of argument
NextInputs ==
    \/ \E req \in NullRequests, created, updated \in ClockMicros :
          BookAny(1, req, created, updated)
    \/ \E date \in {2, BadDate, NoneValue},
          dep \in QueryDepartments \cup {"Radiology"}, d \in QueryDoctors :
          GetAvailableSlotsAny(1, date, dep, d)
    \/ \E id \in ReqIds, updated \in ClockMicros :
          Cancel(1, id, "user_1", updated)
    \/ Return(1)
    \/ Tick

SpecInputs == Init /\ [][NextInputs]_vars

\* ------------------------------------------------------------------------
\* C23: book_appointment and get_available_slots never raise: for every
\* input, also a malformed or missing (None) date or time, an unknown
\* department or doctor or an invalid patient, book_appointment returns a
\* failure with a reason and get_available_slots returns a list, and the
\* store is unchanged.
\* ------------------------------------------------------------------------

\* the request has a malformed or missing date or time, an unknown doctor or
\* department, or an invalid patient
Malformed(req) ==
    \/ req.date \in {BadDate, NoneValue}
    \/ req.time = NoneValue
    \/ req.department \notin DOMAIN DEPARTMENTS
    \/ req.doctor \notin Range(DEPARTMENTS[req.department])
    \/ ~PatientValid(req)

C23_NeverRaises ==
    [][(pc[1] = "idle" /\ pc'[1] = "done") =>
          /\ call'[1].op = "book" =>
                /\ "success" \in DOMAIN call'[1].res
                /\ Malformed(call'[1].req) =>
                      /\ ~call'[1].res.success
                      /\ call'[1].res.error.reason # ""
                      /\ StoreUnchanged
          /\ call'[1].op = "slots" =>
                /\ "raised" \notin DOMAIN call'[1].res
                /\ StoreUnchanged]_vars

\* ------------------------------------------------------------------------
\* get_departments and what its caller can do with the dict returned
\* ------------------------------------------------------------------------

\* the longest list of doctors a caller makes
MaxListLen == 2

\* AppointmentService.get_departments: self.DEPARTMENTS.copy() is a new dict
\* with the keys of the class dict, each value the very list object the class
\* dict holds under that key, here named by that key
get_departments(departments) == [d \in DOMAIN departments |-> d]

\* the dict a caller holds, as it reads it: its keys, and under each the
\* present elements of the list object
Contents(d) == [k \in DOMAIN d |-> catalog[d[k]]]

\* the keys and doctors of the caller's changes
CallerKeys == {"Cardiology", "Rheumatology"}
CallerDoctors == {"Dr. Harsh Sharma", "Dr. Evil"}

\* get_departments()
GetDepartments(i) ==
    /\ pc[i] = "idle"
    /\ Done(i, [op |-> "departments", res |-> get_departments(catalog)])
    /\ NotWritten
    /\ UNCHANGED <<appointments, counter, today, now, pend, catalog>>

\* the caller of get_departments runs "del d[key]" on the dict returned
DelKey(i, key) ==
    /\ pc[i] = "done"
    /\ call[i].op = "departments"
    /\ key \in DOMAIN call[i].res
    /\ call' = [call EXCEPT ![i].res =
                   [k \in DOMAIN call[i].res \ {key} |-> call[i].res[k]]]
    /\ UNCHANGED <<appointments, counter, file, today, now, pc, pend, overlap,
                   lastWriter, catalog>>

\* the caller runs "d[key].append(doctor)" on a list of the dict returned
AppendDoctor(i, key, doctor) ==
    /\ pc[i] = "done"
    /\ call[i].op = "departments"
    /\ key \in DOMAIN call[i].res
    /\ Len(catalog[call[i].res[key]]) < MaxListLen
    /\ catalog' = [catalog EXCEPT ![call[i].res[key]] = Append(@, doctor)]
    /\ UNCHANGED <<appointments, counter, file, today, now, pc, pend, call,
                   overlap, lastWriter>>

\* the caller runs "d[key].remove(doctor)": the first occurrence goes
RemoveDoctor(i, key, doctor) ==
    /\ pc[i] = "done"
    /\ call[i].op = "departments"
    /\ key \in DOMAIN call[i].res
    /\ doctor \in Range(catalog[call[i].res[key]])
    /\ LET l == catalog[call[i].res[key]]
           n == CHOOSE k \in DOMAIN l :
                   l[k] = doctor /\ \A j \in 1..(k - 1) : l[j] # doctor
       IN  catalog' = [catalog EXCEPT ![call[i].res[key]] =
                          SubSeq(l, 1, n - 1) \o SubSeq(l, n + 1, Len(l))]
    /\ UNCHANGED <<appointments, counter, file, today, now, pc, pend, call,
                   overlap, lastWriter>>

\* bookings in Cardiology, with its doctor and with one the class never lists
CatalogRequests ==
    {Request("user_1", <<"Cardiology", d>>, 2, time, ValidPatient) :
        d \in CallerDoctors, time \in ReqTimes}

\* one instance: get_departments, its caller, and bookings
NextCatalog ==
    \/ GetDepartments(1)
    \/ \E key \in CallerKeys : DelKey(1, key)
    \/ \E key \in CallerKeys, d \in CallerDoctors : AppendDoctor(1, key, d)
    \/ \E key \in CallerKeys, d \in CallerDoctors : RemoveDoctor(1, key, d)
    \/ \E req \in CatalogRequests, created, updated \in ClockMicros :
          Book(1, req, created, updated)
    \/ Return(1)
    \/ Tick

SpecCatalog == Init /\ [][NextCatalog]_vars

\* ------------------------------------------------------------------------
\* C24: get_departments returns a defensive copy: whatever a caller does to
\* the dict returned or to a list of doctors in it, the catalog that later
\* get_departments and book_appointment calls use is the one of the class:
\* a later get_departments returns it, and no booking succeeds for a doctor
\* the class does not list in the department.
\* ------------------------------------------------------------------------

C24_DefensiveCopy ==
    /\ Contents(get_departments(catalog)) = DEPARTMENTS
    /\ \A i \in Instances :
          /\ (pc[i] = "done" /\ call[i].op = "book" /\ call[i].res.success) =>
                call[i].req.doctor \in
                    Range(DEPARTMENTS[call[i].req.department])

\* ------------------------------------------------------------------------
\* Every query of the service, beside bookings and cancellations
\* ------------------------------------------------------------------------

\* get_user_appointments_on_date(user_id, date)
GetUserAppointmentsOnDate(i, user_id, date) ==
    Query(i, [op |-> "user_on_date", user_id |-> user_id, date |-> date,
              res |-> << >>],
          get_user_appointments_on_date(
              _load_from_file(appointments[i], counter[i], file).appointments,
              user_id, date))

\* get_doctor_all_appointments(doctor_name)
GetDoctorAllAppointments(i, doctor_name) ==
    Query(i, [op |-> "doctor_all", doctor_name |-> doctor_name,
              res |-> << >>],
          get_doctor_all_appointments(
              _load_from_file(appointments[i], counter[i], file).appointments,
              doctor_name, today))

\* the operations that only read
QueryOps ==
    {"slots", "departments", "user_appointments", "user_on_date",
     "all_appointments", "doctor_today", "doctor_all", "doctor_past_week"}

\* one instance: bookings, cancellations, the clock and every query
NextReads ==
    \/ \E req \in Requests, created, updated \in ClockMicros :
          Book(1, req, created, updated)
    \/ \E id \in ReqIds, u \in Users, updated \in ClockMicros :
          Cancel(1, id, u, updated)
    \/ \E id \in ReqIds, dd \in CatalogDoctors, updated \in ClockMicros :
          CancelByDoctor(1, id, dd[2], "on leave", updated)
    \/ \E dd \in CatalogDoctors : GetAvailableSlots(1, 2, dd[1], dd[2])
    \/ GetDepartments(1)
    \/ \E u \in Users : GetUserAppointments(1, u, FALSE)
    \/ \E u \in Users : GetUserAppointmentsOnDate(1, u, 2)
    \/ GetAllAppointments(1)
    \/ \E dd \in CatalogDoctors : GetDoctorAppointmentsToday(1, dd[2], FALSE)
    \/ \E d \in QueryDoctors : GetDoctorAllAppointments(1, d)
    \/ \E dd \in CatalogDoctors :
          GetDoctorPastWeekAppointments(1, dd[2], FALSE)
    \/ Return(1)
    \/ Tick

SpecReads == Init /\ [][NextReads]_vars

\* ------------------------------------------------------------------------
\* C25: get_doctor_all_appointments returns only the appointments of that
\* doctor that are confirmed and in the future: none whose date and time
\* are before the present moment (none _mark_expired_status would mark).
\* ------------------------------------------------------------------------

C25_DoctorAllFuture ==
    (pc[1] = "done" /\ call[1].op = "doctor_all") =>
        \A k \in DOMAIN call[1].res :
            /\ call[1].res[k].doctor = call[1].doctor_name
            /\ call[1].res[k].status = "confirmed"
            /\ ~BeforeNow(call[1].res[k].date, call[1].res[k].time,
                          today, now, TRUE)

\* ------------------------------------------------------------------------
\* C26: after every reload the dict and the counter of the instance equal
\* the content of the file: a record the instance held that is not in the
\* file (another instance has written a snapshot without it) is gone from
\* its dict. Here for the reload that opens book_appointment, two instances
\* sharing the file.
\* ------------------------------------------------------------------------

\* instance i has just made the reload of its book_appointment
Reloaded(i) ==
    /\ pc[i] = "idle"
    /\ pc'[i] = "loaded"

C26_ReloadReplaces ==
    [][\A i \in Instances :
          Reloaded(i) =>
              /\ Range(appointments'[i]) = Range(file.appointments)
              /\ counter'[i] = file.counter]_vars

\* ------------------------------------------------------------------------
\* C27: no query (get_available_slots, get_departments, the lists of a user
\* and of a doctor) changes the file, the counter or the stored status of an
\* appointment; the stored appointments change only by a successful
\* book_appointment (one record more) or a successful cancellation (the
\* status of the record named).
\* ------------------------------------------------------------------------

\* instance 1 has just returned from a query
QueryReturns ==
    /\ pc[1] = "idle"
    /\ pc'[1] = "done"
    /\ call'[1].op \in QueryOps

\* the file, the dict or the counter is no longer what it was
StoreChanges ==
    \/ file' # file
    \/ appointments'[1] # appointments[1]
    \/ counter'[1] # counter[1]

\* the dicts differ at most in the status of the record id
OnlyStatusOf(id, m, n) ==
    /\ DOMAIN n = DOMAIN m
    /\ \A k \in DOMAIN m :
          IF m[k].id = id THEN [n[k] EXCEPT !.status = m[k].status] = m[k]
          ELSE n[k] = m[k]

C27_QueriesReadOnly ==
    [][/\ QueryReturns => StoreUnchanged
       /\ StoreChanges =>
             /\ pc'[1] = "done"
             /\ call'[1].op \in {"book", "cancel", "cancel_by_doctor"}
             /\ call'[1].res.success
             /\ call'[1].op = "book" =>
                   appointments'[1] =
                       Append(appointments[1], call'[1].res.appointment)
             /\ call'[1].op # "book" =>
                   /\ OnlyStatusOf(call'[1].appointment_id, appointments[1],
                                   appointments'[1])
                   /\ counter'[1] = counter[1]]_vars

\* a list shows an appointment as expired that the dict and the file keep as
\* confirmed, beside a cancelled one
C27_Witness ==
    /\ pc[1] = "done"
    /\ call[1].op = "user_appointments"
    /\ \E k \in DOMAIN call[1].res :
          /\ call[1].res[k].status = "expired"
          /\ Get(appointments[1], call[1].res[k].id).status = "confirmed"
          /\ Get(file.appointments, call[1].res[k].id).status = "confirmed"
    /\ \E apt \in Range(appointments[1]) : apt.status = "cancelled"

\* ------------------------------------------------------------------------
\* C28: book_appointment agrees with get_available_slots.
\* ------------------------------------------------------------------------

\* the slots get_available_slots returns for the request, on the store and
\* at the clock the booking has found
SlotsFor(req) ==
    Range(get_available_slots(appointments[1], req.date, req.department,
                              req.doctor, today, now))

\* C28, as claimed: book_appointment succeeds only if the time is one of
\* get_available_slots(date, department, doctor) on the same store and at
\* the same clock; a slot of today whose time has passed cannot be booked.
C28_Original ==
    [][(BookReturns /\ call'[1].res.success) =>
          call'[1].req.time \in SlotsFor(call'[1].req)]_vars

\* C28, amended: book_appointment succeeds only if the time is one of
\* get_available_slots(date, department, doctor) on the same store and at
\* the same clock, or the date is today and the time is not after the time
\* of the clock: it rejects the dates before today only, and books a slot of
\* today whose time has passed.
C28_BookWithinSlots ==
    [][(BookReturns /\ call'[1].res.success) =>
          \/ call'[1].req.time \in SlotsFor(call'[1].req)
          \/ /\ call'[1].req.date = today
             /\ call'[1].req.time <= now]_vars

\* a slot of today that is over has been booked, and one of a later day
C28_Witness ==
    /\ pc[1] = "done"
    /\ call[1].op = "book"
    /\ call[1].res.success
    /\ call[1].req.date = today
    /\ call[1].req.time < now
    /\ \E apt \in Confirmed(appointments[1]) : apt.created_at[1] < apt.date

\* ------------------------------------------------------------------------
\* C29: the slots returned and the confirmed appointments of the doctor.
\* ------------------------------------------------------------------------

\* instance 1 has returned from get_available_slots
SlotsReturned ==
    /\ pc[1] = "done"
    /\ call[1].op = "slots"

\* the confirmed appointments with the doctor on the date of the call
ConfirmedWithDoctor ==
    {apt \in Confirmed(appointments[1]) :
        apt.doctor = call[1].doctor /\ apt.date = call[1].date}

\* C29, as claimed: for every department argument, also one the doctor does
\* not belong to, get_available_slots returns no time at which a confirmed
\* appointment with that doctor exists on that date.
C29_Original ==
    SlotsReturned =>
        \A apt \in ConfirmedWithDoctor : apt.time \notin Range(call[1].res)

\* C29, amended: get_available_slots(date, department, doctor) returns no
\* time at which a confirmed appointment with that doctor, stored under that
\* same department, exists on that date.
C29_BookedNotAvailable ==
    SlotsReturned =>
        \A apt \in ConfirmedWithDoctor :
            apt.department = call[1].department =>
                apt.time \notin Range(call[1].res)

\* slots are returned for a doctor and the department of a confirmed
\* appointment with the doctor on that date, a cancelled one beside it
C29_Witness ==
    /\ SlotsReturned
    /\ call[1].res # << >>
    /\ \E apt \in ConfirmedWithDoctor : apt.department = call[1].department
    /\ \E apt \in Range(appointments[1]) :
          /\ apt.doctor = call[1].doctor
          /\ apt.date = call[1].date
          /\ apt.status # "confirmed"

\* ------------------------------------------------------------------------
\* C30: the changes of the stored status.
\* ------------------------------------------------------------------------

\* the pairs (status before, status after) of the records of the dict m
\* whose status is another in the dict n
StatusChanges(m, n) ==
    {<<m[k].status, Get(n, m[k].id).status>> :
        k \in {j \in DOMAIN m :
                  m[j].id \in Keys(n) /\ Get(n, m[j].id).status # m[j].status}}

\* C30, as claimed: cancelled and cancelled_by_doctor are terminal: the
\* only changes of a stored status are confirmed to cancelled and confirmed
\* to cancelled_by_doctor, so a record the doctor cancelled keeps the status
\* cancelled_by_doctor under every later operation.
C30_Original ==
    [][/\ StatusChanges(appointments[1], appointments'[1]) \subseteq
             {<<"confirmed", "cancelled">>,
              <<"confirmed", "cancelled_by_doctor">>}
       /\ StatusChanges(file.appointments, file'.appointments) \subseteq
             {<<"confirmed", "cancelled">>,
              <<"confirmed", "cancelled_by_doctor">>}]_vars

\* C30, amended: cancelled is terminal, cancelled_by_doctor is not: the
\* only changes of a stored status are confirmed to cancelled, confirmed to
\* cancelled_by_doctor, and cancelled_by_doctor to cancelled, the last one
\* by cancel_appointment of the patient alone; a record the doctor cancelled
\* keeps the status cancelled_by_doctor until its patient cancels it.
C30_StatusChanges ==
    [][LET changes == StatusChanges(appointments[1], appointments'[1])
       IN  /\ changes \subseteq
                 {<<"confirmed", "cancelled">>,
                  <<"confirmed", "cancelled_by_doctor">>,
                  <<"cancelled_by_doctor", "cancelled">>}
           /\ StatusChanges(file.appointments, file'.appointments) = changes
           /\ <<"cancelled_by_doctor", "cancelled">> \in changes =>
                 /\ call'[1].op = "cancel"
                 /\ call'[1].res.success
                 /\ call'[1].user_id =
                       Get(appointments[1],
                           call'[1].appointment_id).user_id]_vars

\* the patient has cancelled an appointment the doctor had cancelled: it
\* is stored as cancelled, in the dict and in the file
C30_Witness ==
    /\ pc[1] = "done"
    /\ call[1].op = "cancel"
    /\ call[1].res.success
    /\ call[1].was = "cancelled_by_doctor"
    /\ Get(file.appointments, call[1].appointment_id).status = "cancelled"
    /\ Get(appointments[1], call[1].appointment_id).status = "cancelled"

====
